---------------------------- MODULE Spec2Model ----------------------------
(***************************************************************************)
(* DistanceCalculator: the partition / distribute / compute / gather       *)
(* engine (MPIWrapper), its partitioner (getBlockSize), the flat-buffer    *)
(* conversions (toFlatMatrix / splitFlatMatrix) and the distance kernels   *)
(* (MathKernel, MTMathKernel) with the metric functions of MathUtils.h.    *)
(*                                                                         *)
(* One module, several specifications over one set of variables:           *)
(*   Spec        the MPI protocol between rank 0 and the other ranks       *)
(*   SpecPlan    getBlockSize applied to bounded inputs                    *)
(*   SpecFlat    toFlatMatrix followed by splitFlatMatrix                  *)
(*   SpecKernel  MathKernel / MTMathKernel computeDistance                 *)
(* A specification leaves the variables of the others at their idle value. *)
(***************************************************************************)
EXTENDS Integers, Sequences, FiniteSets, TLC

(***************************************************************************)
(* Bounds of the model (not program constants).                            *)
(***************************************************************************)
\* SpecPlan: getBlockSize is applied to every length in 0..PlanMaxLength and
\* every process count in 0..PlanMaxSize.
PlanMaxLength == 9
PlanMaxSize == 9
\* SpecFlat: tables of at most FlatMaxRows rows and FlatMaxCols columns with
\* cells in 0..FlatMaxVal.
FlatMaxRows == 2
FlatMaxCols == 2
FlatMaxVal == 2
\* Spec: at most MaxProc MPI processes, a query of at most MaxRows rows, a
\* dataset of at most MaxData rows, vectors of at most MaxDim elements.
MaxProc == 3
MaxRows == 3
MaxData == 2
MaxDim == 2
\* SpecKernel: tables of at most KernMaxRows rows, each row of at most
\* KernMaxDim elements.
KernMaxRows == 2
KernMaxDim == 1
\* SpecInt: int has IntBits bits; S has at most IntMaxRows rows of at most
\* IntMaxDim elements.
IntBits == 3
IntMaxRows == 2
IntMaxDim == 2
\* SpecCSV: files of at most CsvMaxRows rows, of at most CsvMaxParRows rows
\* under the policy Par, where every row is a task of its own; at most
\* CsvMaxHardwareThreads hardware threads.
CsvMaxRows == 27
CsvMaxParRows == 4
CsvMaxHardwareThreads == 3
\* SpecCLI: command lines of at most CliMaxArgs arguments behind the name of
\* the executable.
CliMaxArgs == 3
\* SpecReg: at most RegMaxEarlier MPIWrapper objects were constructed in the
\* process before the one at hand, and at most RegMaxCalls calls are made on
\* it.
RegMaxEarlier == 2
RegMaxCalls == 2
\* SpecAgain: rank 0 of at most AgainMaxProc processes calls distributeTask at
\* most AgainMaxCalls times, on queries of at most AgainMaxRows rows.
AgainMaxProc == 2
AgainMaxRows == 2
AgainMaxCalls == 2

(***************************************************************************)
(* Program constants.                                                      *)
(***************************************************************************)
\* MPIWrapper::mainPID
mainPID == 0
\* getBlockSize: const auto minPerProcessor = 1
minPerProcessor == 1
\* getBlockSize: the process count used when numOfProcessor() is 0
defaultProcessorCount == 2
\* readCSV_MT2: const auto min_per_thread = 25
min_per_thread == 25
\* readCSV_MT2: the thread count used when hardware_concurrency() is 0
defaultThreads == 2

(***************************************************************************)
(* Generic helpers.                                                        *)
(***************************************************************************)
\* std::optional<T>: the empty optional and an engaged one.
None == << >>
Some(v) == << v >>
HasValue(o) == Len(o) = 1
Value(o) == o[1]

Min(a, b) == IF a <= b THEN a ELSE b

\* size_t division a / b.  Division by zero is undefined behaviour: the build
\* either traps (x86 raises SIGFPE) or yields 0 (the AArch64 udiv result).
DivOutcomes(a, b) ==
    IF b = 0
    THEN { [trap |-> TRUE, q |-> 0], [trap |-> FALSE, q |-> 0] }
    ELSE { [trap |-> FALSE, q |-> a \div b] }

\* Rectangular tables of R rows and C columns over 0..maxVal.
Tables(R, C, maxVal) == [1..R -> [1..C -> 0..maxVal]]

(***************************************************************************)
(* MPIWrapper::getBlockSize(length), with numOfProcessor() as a parameter. *)
(* The set of outcomes: one record unless the division is by zero.         *)
(***************************************************************************)
getBlockSize_Uncapped(length, availableProcessorCount) ==
    LET numProcessor == IF availableProcessorCount # 0
                        THEN availableProcessorCount
                        ELSE defaultProcessorCount
    IN  { [trap |-> d.trap, blockSize |-> d.q, numProcessor |-> numProcessor] :
            d \in DivOutcomes(length, numProcessor) }

getBlockSize(length, availableProcessorCount) ==
    LET maxThreads == (length + minPerProcessor - 1) \div minPerProcessor
        numProcessor == Min(IF availableProcessorCount # 0
                            THEN availableProcessorCount
                            ELSE defaultProcessorCount,
                            maxThreads)
    IN  { [trap |-> d.trap, blockSize |-> d.q, numProcessor |-> numProcessor] :
            d \in DivOutcomes(length, numProcessor) }

(***************************************************************************)
(* MPIWrapper::toFlatMatrix(table): the rows concatenated in row order.    *)
(***************************************************************************)
RECURSIVE ConcatRows(_, _)
ConcatRows(table, i) ==
    IF i > Len(table) THEN << >>
    ELSE table[i] \o ConcatRows(table, i + 1)

toFlatMatrix(table) ==
    IF table = << >> THEN << >> ELSE ConcatRows(table, 1)

\* ASSERT_DEBUG at the end of toFlatMatrix.
toFlatMatrixSizeExpected(table) ==
    table = << >> \/ Len(toFlatMatrix(table)) = Len(table) * Len(table[1])

\* std::span::subspan(offset, count): rows offset .. offset+count-1 (0-based).
subspan(table, offset, count) == SubSeq(table, offset + 1, offset + count)

(***************************************************************************)
(* MPIWrapper::splitFlatMatrix(flatMatrix, rowSize): the set of outcomes.  *)
(* matrixSize = size / rowSize rows, row i = the i-th block of rowSize     *)
(* elements.  rowSize = 0 divides by zero.                                 *)
(***************************************************************************)
SplitRows(flatMatrix, rowSize, matrixSize) ==
    [i \in 1..matrixSize |->
        SubSeq(flatMatrix, (i - 1) * rowSize + 1, i * rowSize)]

splitFlatMatrix_Overlapping(flatMatrix, rowSize) ==
    { [trap |-> d.trap,
       matrix |-> [i \in 1..d.q |-> SubSeq(flatMatrix, i, i + rowSize - 1)]] :
        d \in DivOutcomes(Len(flatMatrix), rowSize) }

splitFlatMatrix(flatMatrix, rowSize) ==
    { [trap |-> d.trap, matrix |-> SplitRows(flatMatrix, rowSize, d.q)] :
        d \in DivOutcomes(Len(flatMatrix), rowSize) }

(***************************************************************************)
(* The tag registry: registerVariable / registerParamsForSync /            *)
(* getVariableTag.  registerVariable gives a new name the next value of    *)
(* the counter uniqueVarID and returns the tag of a known name.            *)
(***************************************************************************)
\* The variant binds the name to the next value of the counter
\* also when it is bound already.
registerVariable_Rebinds(reg, varName) ==
    [map |-> [x \in DOMAIN reg.map \cup {varName} |->
                 IF x = varName THEN reg.uniqueVarID ELSE reg.map[x]],
     uniqueVarID |-> reg.uniqueVarID + 1,
     tag |-> reg.uniqueVarID]
registerVariable(reg, varName) ==
    IF varName \in DOMAIN reg.map
    THEN [map |-> reg.map, uniqueVarID |-> reg.uniqueVarID,
          tag |-> reg.map[varName]]
    ELSE [map |-> [x \in DOMAIN reg.map \cup {varName} |->
                      IF x = varName THEN reg.uniqueVarID ELSE reg.map[x]],
          uniqueVarID |-> reg.uniqueVarID + 1,
          tag |-> reg.uniqueVarID]

SyncParams == << "vectorSize", "querySize", "dataSetSize",
                 "queryMatrix", "dataSetMatrix", "distanceMatrix" >>

RECURSIVE RegisterAll(_, _, _)
RegisterAll(reg, names, i) ==
    IF i > Len(names) THEN reg
    ELSE RegisterAll(registerVariable(reg, names[i]), names, i + 1)

registerParamsForSync ==
    RegisterAll([map |-> << >>, uniqueVarID |-> 0, tag |-> 0], SyncParams, 1)

m_mapVarNameToID == registerParamsForSync.map

\* getVariableTag(name); -1 stands for the error raised on an unknown name.
getVariableTag(name) ==
    IF name \in DOMAIN m_mapVarNameToID THEN m_mapVarNameToID[name] ELSE -1

(***************************************************************************)
(* Metric functions (MathUtils.h) on vectors whose elements are small      *)
(* integers, exactly representable in TValueType = float.                  *)
(***************************************************************************)
Metrics == { "L1", "L2", "Hamming" }

Abs(x) == IF x < 0 THEN -x ELSE x

\* std::abs(first[vecIdx] - second[vecIdx]); the variant drops the abs.
L1Term_Signed(a, b) == a - b
L1Term(a, b) == Abs(a - b)
L2Term(a, b) == (a - b) * (a - b)
\* |a - b| > 1e-6 on integer-valued floats is a # b; the variant counts only
\* differences above 1.
HammingTerm_AboveOne(a, b) == IF Abs(a - b) > 1 THEN 1 ELSE 0
HammingTerm(a, b) == IF Abs(a - b) > 0 THEN 1 ELSE 0
TermOf(fn, a, b) ==
    CASE fn = "L1" -> L1Term(a, b)
      [] fn = "L2" -> L2Term(a, b)
      [] fn = "Hamming" -> HammingTerm(a, b)

\* The accumulation loop of the three functions: the term of
\* (first[vecIdx], second[vecIdx]) summed over vecIdx.
RECURSIVE SumOver(_, _, _, _)
SumOver(fn, first, second, vecIdx) ==
    IF vecIdx > Len(first) THEN 0
    ELSE TermOf(fn, first[vecIdx], second[vecIdx]) + SumOver(fn, first, second, vecIdx + 1)

computeL1Distance(first, second) == SumOver("L1", first, second, 1)
\* std::sqrt of an accumulated sum: the root when the sum is a square;
\* otherwise the root is no integer and is kept as its radicand, negated to
\* tell it from the integers.
sqrt(sum) ==
    LET root == CHOOSE k \in 0..sum : k * k <= sum /\ (k + 1) * (k + 1) > sum
    IN  IF root * root = sum THEN root ELSE -sum

\* static_cast<float>(std::sqrt(distance)) of the accumulated sum.
computeL2Distance(first, second) ==
    sqrt(SumOver("L2", first, second, 1))
computeHammingDistance(first, second) == SumOver("Hamming", first, second, 1)

distance(metric, first, second) ==
    CASE metric = "L1" -> computeL1Distance(first, second)
      [] metric = "L2" -> computeL2Distance(first, second)
      [] metric = "Hamming" -> computeHammingDistance(first, second)

(***************************************************************************)
(* IMathKernel::createMatrix and MathKernel::computeDistance (sequential). *)
(***************************************************************************)
createMatrix_Transposed(rowCount, columnCount) ==
    [i \in 1..columnCount |-> [j \in 1..rowCount |-> 0]]

createMatrix(rowCount, columnCount) ==
    [i \in 1..rowCount |-> [j \in 1..columnCount |-> 0]]

\* The nested loop from cell (queryIdx, dataSetIdx) on, row-major; it stops
\* at the first pair of vectors of different sizes (ASSERT_ERROR).
RECURSIVE SeqLoop(_, _, _, _, _, _)
SeqLoop(query, dataSet, metric, result, queryIdx, dataSetIdx) ==
    IF queryIdx > Len(query)
    THEN [error |-> FALSE, matrix |-> result, at |-> << >>]
    ELSE IF dataSetIdx > Len(dataSet)
    THEN SeqLoop(query, dataSet, metric, result, queryIdx + 1, 1)
    ELSE IF Len(query[queryIdx]) # Len(dataSet[dataSetIdx])
    THEN [error |-> TRUE, matrix |-> result, at |-> << queryIdx, dataSetIdx >>]
    ELSE SeqLoop(query, dataSet, metric,
                 [result EXCEPT ![queryIdx][dataSetIdx] =
                     distance(metric, query[queryIdx], dataSet[dataSetIdx])],
                 queryIdx, dataSetIdx + 1)

\* A variant with the loops exchanged: dataSetIdx outer, queryIdx inner.
RECURSIVE SeqLoop_ColumnMajor(_, _, _, _, _, _)
SeqLoop_ColumnMajor(query, dataSet, metric, result, queryIdx, dataSetIdx) ==
    IF dataSetIdx > Len(dataSet) \/ query = << >>
    THEN [error |-> FALSE, matrix |-> result, at |-> << >>]
    ELSE IF queryIdx > Len(query)
    THEN SeqLoop_ColumnMajor(query, dataSet, metric, result, 1, dataSetIdx + 1)
    ELSE IF Len(query[queryIdx]) # Len(dataSet[dataSetIdx])
    THEN [error |-> TRUE, matrix |-> result, at |-> << queryIdx, dataSetIdx >>]
    ELSE SeqLoop_ColumnMajor(query, dataSet, metric,
                 [result EXCEPT ![queryIdx][dataSetIdx] =
                     distance(metric, query[queryIdx], dataSet[dataSetIdx])],
                 queryIdx + 1, dataSetIdx)
MathKernel_computeDistance_ColumnMajor(query, dataSet, metric) ==
    SeqLoop_ColumnMajor(query, dataSet, metric,
                        createMatrix(Len(query), Len(dataSet)), 1, 1)

MathKernel_computeDistance(query, dataSet, metric) ==
    SeqLoop(query, dataSet, metric,
            createMatrix(Len(query), Len(dataSet)), 1, 1)

(***************************************************************************)
(* MPI point-to-point transfer as util::send / util::receive use it.       *)
(***************************************************************************)
\* A message in flight: the tag and the elements (a scalar is one element).
Msg(tag, data) == [tag |-> tag, data |-> data]

\* Index of the first message of the queue with the tag, 0 when there is none
\* (MPI matches messages of one sender in the order they were sent).
RECURSIVE FirstMatch(_, _, _)
FirstMatch(queue, tag, i) ==
    IF i > Len(queue) THEN 0
    ELSE IF queue[i].tag = tag THEN i
    ELSE FirstMatch(queue, tag, i + 1)

RemoveAt(queue, i) == SubSeq(queue, 1, i - 1) \o SubSeq(queue, i + 1, Len(queue))

Zeros(k) == [i \in 1..k |-> 0]

\* MPI_Recv into a buffer of count value-initialised elements: a shorter
\* message fills a prefix, a longer one is a truncation error.
RecvTruncated(count, data) == Len(data) > count
RecvBuffer(count, data) == data \o Zeros(count - Len(data))

\* The input tables: every cell of a table is different from the others and
\* from the 0 of a value-initialised buffer, so a row taken from the wrong
\* place or in the wrong order shows.
QueryTable(R, C) == [i \in 1..R |-> [k \in 1..C |-> (i - 1) * C + k]]
DataSetTable(R, C) == [j \in 1..R |-> [k \in 1..C |-> (j - 1) * C + k + 1]]

(***************************************************************************)
(* State.                                                                  *)
(***************************************************************************)
VARIABLES
    \* SpecPlan: the arguments of getBlockSize and what it returned.
    gbLength, gbSize, gbRet,
    \* SpecFlat: the table, its column count, the flat buffer, the split result.
    fmTable, fmCols, fmFlat, fmSplit, fmPc,
    \* Spec, the run: m_iMPISize, the arguments of distributeTask, the metric.
    nproc, query, dataSet, metric,
    \* Spec, per rank: where the process is, whether the MPI_Recv it is at has
    \* been posted, and the MPIWrapper members.
    pc, posted,
    m_vectorSize, m_querySize, m_dataSetSize, m_selfQuery, m_selfDistanceMatrix,
    \* Spec, per rank: what receiveQuery, receiveDataSet and computeDistance
    \* returned to the caller.
    localQuery, localDataSet, localDistance,
    \* Spec, per rank: the result of the last getBlockSize call.
    plan,
    \* Spec, rank 0: the loop variable pid, blockStart, the distanceMatrix
    \* under assembly, the matrix receiveDistanceMatrix returned.
    pid, blockStart, distanceMatrix, finalMatrix,
    \* Spec, the network: the messages in flight to and from each worker, the
    \* fatal MPI error state, and per rank the log of what it sent and received.
    toWorker, toMain, failure, sentLog, recvLog,
    \* Spec, history: the workers in the order their sendDistanceMatrix sent.
    sendOrder,
    \* SpecKernel: the arguments of computeDistance, which kernel runs, where
    \* the call is, the result matrix, the query rows std::for_each has not
    \* handled yet, the rows whose handler is past its check of the flag and
    \* in its loop, for every row of the result the units that stored a cell
    \* of it (history), the dimensionalError flag, and what the call returned.
    kQuery, kDataSet, kMetric, kKernel, kPc, result, unhandled, running, writers,
    dimensionalError,
    kRet,
    \* SpecKernel: the pair (queryIdx, dataSetIdx) at which the sequential
    \* kernel raised.
    raisedAt,
    \* SpecInt: the table S of int vectors, the metric, whether signed
    \* overflow traps in this build, how the machine converts an
    \* unrepresentable floating value to int, where the call is, the matrix
    \* returned, and whether an int operation of the call overflowed.
    iS, iMetric, iTraps, iCast, iPc, iRet, iOverflowed,
    \* SpecApp: the command line, the CSV files of the file system, the
    \* exception the environment makes loadCSVFiles throw; the members of
    \* MainApplication; where the run is, the exception thrown, the messages
    \* written by io::Msg::Write, the tables loaded, the matrix computed, the
    \* matrix displayed, the matrix written to the output file, and the
    \* status main() returned.
    appArgs, fsFiles, envFault,
    m_dbg, m_executeParallel, m_strMetric, m_queryCSVFile, m_dataSetCSVFile,
    m_outFile,
    appPc, thrown, msgLog, querySet, loadedDataSet, distancesMatrix, displayed,
    outFileContent, exitStatus,
    \* SpecCSV: the lines the parser loaded, the execution policy, what
    \* std::thread::hardware_concurrency() returns, where the call is, the
    \* table under construction, the rows std::for_each has not handled yet,
    \* the blocks of the threads of readCSV_MT2, and the table returned.
    m_arrData, csvExec, hardware_threads, csvPc, csvTable, csvUnhandled,
    csvThreads, csvRet,
    \* SpecCLI: the command line, the map of the registered options, the
    \* variables the value options refer to, the arguments with which each
    \* callback was called, whether the help message was printed, the loop
    \* variable i, the option names the loop over the map has not visited
    \* yet, and where parse is.
    argv, m_mapOptionNameToValueDefinition, outValue, calls, helpPrinted, cliI,
    cliPending, cliPc,
    \* SpecReg: the member m_mapVarNameToID of the MPIWrapper at hand, the
    \* function-static counter of registerVariable, whether the constructor
    \* has run, and the calls made since with what they gave (history).
    registry, uniqueVarID, regPc, regLog,
    \* SpecAgain, rank 0 of one MPIWrapper used again: m_iMPISize, the queries
    \* given to distributeTask so far (history), the members m_selfQuery,
    \* m_querySize and m_dataSetSize, the number of messages sent, what the
    \* last receiveQuery returned and after how many distributeTask calls,
    \* and whether the process still runs.
    againProc, againQueries, againSelfQuery, againQuerySize, againDataSetSize,
    againSent, againRet, againPc

planVars == << gbLength, gbSize, gbRet >>
flatVars == << fmTable, fmCols, fmFlat, fmSplit, fmPc >>
inputVars == << nproc, query, dataSet, metric >>
memberVars == << m_vectorSize, m_querySize, m_dataSetSize, m_selfQuery,
                 m_selfDistanceMatrix >>
localVars == << localQuery, localDataSet, localDistance >>
mainVars == << pid, blockStart, distanceMatrix, finalMatrix >>
netVars == << toWorker, toMain, failure, sentLog, recvLog, sendOrder >>
protoVars == << inputVars, pc, posted, plan, memberVars, localVars, mainVars,
               netVars >>
kernVars == << kQuery, kDataSet, kMetric, kKernel, kPc, result, unhandled,
              running, writers, dimensionalError, kRet, raisedAt >>
\* The variables of the specifications further down.
intVars == << iS, iMetric, iTraps, iCast, iPc, iRet, iOverflowed >>
appVars == << appArgs, fsFiles, envFault, m_dbg, m_executeParallel, m_strMetric,
             m_queryCSVFile, m_dataSetCSVFile, m_outFile, appPc, thrown, msgLog,
             querySet, loadedDataSet, distancesMatrix, displayed, outFileContent,
             exitStatus >>
csvVars == << m_arrData, csvExec, hardware_threads, csvPc, csvTable, csvUnhandled,
             csvThreads, csvRet >>
cliVars == << argv, m_mapOptionNameToValueDefinition, outValue, calls, helpPrinted,
             cliI, cliPending, cliPc >>
regVars == << registry, uniqueVarID, regPc, regLog >>
againVars == << againProc, againQueries, againSelfQuery, againQuerySize,
               againDataSetSize, againSent, againRet, againPc >>
coreVars == << planVars, flatVars, protoVars, kernVars >>
restVars == << intVars, appVars, csvVars, cliVars, regVars, againVars >>
\* What the actions of one of these specifications leave unchanged.
intOthers == << coreVars, appVars, csvVars, cliVars, regVars, againVars >>
appOthers == << coreVars, intVars, csvVars, cliVars, regVars, againVars >>
csvOthers == << coreVars, intVars, appVars, cliVars, regVars, againVars >>
cliOthers == << coreVars, intVars, appVars, csvVars, regVars, againVars >>
regOthers == << coreVars, intVars, appVars, csvVars, cliVars, againVars >>
againOthers == << coreVars, intVars, appVars, csvVars, cliVars, regVars >>
vars == << planVars, flatVars, protoVars, kernVars, restVars >>

PlanIdle == gbLength = 0 /\ gbSize = 0 /\ gbRet = None
FlatIdle == /\ fmTable = << >> /\ fmCols = 0 /\ fmFlat = << >>
            /\ fmSplit = None /\ fmPc = "idle"
ProtoIdle ==
    /\ nproc = 0 /\ query = << >> /\ dataSet = << >> /\ metric = "L1"
    /\ pc = << >> /\ posted = << >>
    /\ m_vectorSize = << >> /\ m_querySize = << >> /\ m_dataSetSize = << >>
    /\ m_selfQuery = << >> /\ m_selfDistanceMatrix = << >>
    /\ localQuery = << >> /\ localDataSet = << >> /\ localDistance = << >>
    /\ pid = 0 /\ blockStart = 0 /\ plan = << >> /\ distanceMatrix = << >>
    /\ finalMatrix = None
    /\ toWorker = << >> /\ toMain = << >> /\ failure = "none" /\ sendOrder = << >>
    /\ sentLog = << >> /\ recvLog = << >>
KernIdle ==
    /\ kQuery = << >> /\ kDataSet = << >> /\ kMetric = "L1" /\ kKernel = "none"
    /\ kPc = "idle" /\ result = << >> /\ unhandled = { }
    /\ running = { } /\ writers = << >>
    /\ dimensionalError = FALSE /\ kRet = None /\ raisedAt = << >>
IntIdle ==
    /\ iS = << >> /\ iMetric = "L1" /\ iTraps = FALSE /\ iCast = "none"
    /\ iPc = "idle" /\ iRet = None /\ iOverflowed = FALSE
AppIdle ==
    /\ appArgs = << >> /\ fsFiles = << >> /\ envFault = "none"
    /\ m_dbg = FALSE /\ m_executeParallel = FALSE /\ m_strMetric = ""
    /\ m_queryCSVFile = "" /\ m_dataSetCSVFile = "" /\ m_outFile = ""
    /\ appPc = "idle" /\ thrown = None /\ msgLog = << >>
    /\ querySet = << >> /\ loadedDataSet = << >> /\ distancesMatrix = None
    /\ displayed = None /\ outFileContent = None /\ exitStatus = None
CsvIdle ==
    /\ m_arrData = << >> /\ csvExec = "none" /\ hardware_threads = 0
    /\ csvPc = "idle" /\ csvTable = << >> /\ csvUnhandled = { }
    /\ csvThreads = << >> /\ csvRet = None
CliIdle ==
    /\ argv = << >> /\ m_mapOptionNameToValueDefinition = << >>
    /\ outValue = << >> /\ calls = << >> /\ helpPrinted = FALSE
    /\ cliI = 0 /\ cliPending = << >> /\ cliPc = "idle"
RegIdle ==
    /\ registry = << >> /\ uniqueVarID = 0 /\ regPc = "idle" /\ regLog = << >>
AgainIdle ==
    /\ againProc = 0 /\ againQueries = << >> /\ againSelfQuery = << >>
    /\ againQuerySize = None /\ againDataSetSize = None /\ againSent = 0
    /\ againRet = None /\ againPc = "idle"
CoreIdle == PlanIdle /\ FlatIdle /\ ProtoIdle /\ KernIdle
RestIdle == IntIdle /\ AppIdle /\ CsvIdle /\ CliIdle /\ RegIdle /\ AgainIdle
IntOthersIdle == CoreIdle /\ AppIdle /\ CsvIdle /\ CliIdle /\ RegIdle /\ AgainIdle
AppOthersIdle == CoreIdle /\ IntIdle /\ CsvIdle /\ CliIdle /\ RegIdle /\ AgainIdle
CsvOthersIdle == CoreIdle /\ IntIdle /\ AppIdle /\ CliIdle /\ RegIdle /\ AgainIdle
CliOthersIdle == CoreIdle /\ IntIdle /\ AppIdle /\ CsvIdle /\ RegIdle /\ AgainIdle
RegOthersIdle == CoreIdle /\ IntIdle /\ AppIdle /\ CsvIdle /\ CliIdle /\ AgainIdle
AgainOthersIdle == CoreIdle /\ IntIdle /\ AppIdle /\ CsvIdle /\ CliIdle /\ RegIdle

(***************************************************************************)
(* SpecPlan: getBlockSize on bounded inputs.                               *)
(***************************************************************************)
PlanInit ==
    /\ gbLength \in 0..PlanMaxLength
    /\ gbSize \in 0..PlanMaxSize
    /\ gbRet = None
    /\ FlatIdle /\ ProtoIdle /\ KernIdle /\ RestIdle

CallGetBlockSize ==
    /\ gbRet = None
    /\ \E r \in getBlockSize(gbLength, gbSize) : gbRet' = Some(r)
    /\ UNCHANGED << gbLength, gbSize, flatVars, protoVars, kernVars, restVars >>

PlanNext == CallGetBlockSize

SpecPlan == PlanInit /\ [][PlanNext]_vars

(***************************************************************************)
(* SpecFlat: toFlatMatrix, then splitFlatMatrix with the column count.     *)
(***************************************************************************)
FlatInit ==
    /\ fmCols \in 0..FlatMaxCols
    /\ \E R \in 0..FlatMaxRows : fmTable \in Tables(R, fmCols, FlatMaxVal)
    /\ fmFlat = << >>
    /\ fmSplit = None
    /\ fmPc = "start"
    /\ PlanIdle /\ ProtoIdle /\ KernIdle /\ RestIdle

CallToFlatMatrix ==
    /\ fmPc = "start"
    /\ fmFlat' = toFlatMatrix(fmTable)
    /\ fmPc' = "flat"
    /\ UNCHANGED << fmTable, fmCols, fmSplit, planVars, protoVars, kernVars, restVars >>

CallSplitFlatMatrix ==
    /\ fmPc = "flat"
    /\ \E r \in splitFlatMatrix(fmFlat, fmCols) : fmSplit' = Some(r)
    /\ fmPc' = "split"
    /\ UNCHANGED << fmTable, fmCols, fmFlat, planVars, protoVars, kernVars, restVars >>

FlatNext == CallToFlatMatrix \/ CallSplitFlatMatrix

SpecFlat == FlatInit /\ [][FlatNext]_vars

(***************************************************************************)
(* Spec: one run of the protocol.  Rank 0 calls distributeTask,            *)
(* receiveQuery, computeDistance, sendDistanceMatrix and                   *)
(* receiveDistanceMatrix; every other rank calls receiveQuery,             *)
(* receiveDataSet, computeDistance and sendDistanceMatrix.                 *)
(***************************************************************************)
Ranks == 0..(nproc - 1)
Workers == 1..(nproc - 1)
isMain(p) == p = mainPID
numOfProcessor == nproc

\* distributeTask calls distributeQuery, then sendDataSet; the variant calls
\* them in the other order.
distributeTask_Order_DataSetFirst == << "sendDataSet", "distributeQuery" >>
distributeTask_Order == << "distributeQuery", "sendDataSet" >>

\* The caller of MPIWrapper is not among the sources at hand; the order of
\* its calls follows the protocol states DistributingQuery,
\* DistributingDataset, Computing, Gathering, Done: what rank p does after
\* the named method has returned.
DriverNext(p, returned) ==
    CASE returned = "start" ->
           IF isMain(p) THEN distributeTask_Order[1] ELSE "rq_vectorSize"
      [] returned = "distributeTask" -> "receiveQuery"
      [] returned = "receiveQuery" ->
           IF isMain(p) THEN "computeDistance" ELSE "rds_dataSetSize"
      [] returned = "receiveDataSet" -> "computeDistance"
      [] returned = "computeDistance" -> "sendDistanceMatrix"
      [] returned = "sendDistanceMatrix" ->
           IF isMain(p) THEN "receiveDistanceMatrix" ELSE "done"
      [] OTHER -> "done"

\* Where rank 0 goes on when the named method called by distributeTask has
\* returned: to the second method, or back to the caller.
distributeTask_Next(method) ==
    IF method = distributeTask_Order[1] THEN distributeTask_Order[2]
    ELSE DriverNext(mainPID, "distributeTask")

Init ==
    /\ nproc \in 1..MaxProc
    /\ \E R \in 0..MaxRows, C \in 0..MaxDim : query = QueryTable(R, C)
    /\ \E R \in 0..MaxData, C \in 0..MaxDim : dataSet = DataSetTable(R, C)
    /\ metric \in Metrics
    \* A worker's receiveQuery finds m_vectorSize empty and receives it first.
    /\ pc = [p \in Ranks |-> DriverNext(p, "start")]
    /\ posted = [p \in Ranks |-> FALSE]
    /\ m_vectorSize = [p \in Ranks |-> None]
    /\ m_querySize = [p \in Ranks |-> None]
    /\ m_dataSetSize = [p \in Ranks |-> None]
    /\ m_selfQuery = [p \in Ranks |-> << >>]
    /\ m_selfDistanceMatrix = [p \in Ranks |-> << >>]
    /\ localQuery = [p \in Ranks |-> None]
    /\ localDataSet = [p \in Ranks |-> None]
    /\ localDistance = [p \in Ranks |-> None]
    /\ plan = [p \in Ranks |-> None]
    /\ pid = 0 /\ blockStart = 0 /\ distanceMatrix = << >> /\ finalMatrix = None
    /\ toWorker = [p \in Workers |-> << >>]
    /\ toMain = [p \in Workers |-> << >>]
    /\ failure = "none"
    /\ sentLog = [p \in Ranks |-> << >>]
    /\ recvLog = [p \in Ranks |-> << >>]
    /\ sendOrder = << >>
    /\ PlanIdle /\ FlatIdle /\ KernIdle /\ RestIdle

\* The MPI_Recv a process is at: its tag (-1 when it is at none) and source.
RecvTag(p) ==
    CASE pc[p] = "rq_vectorSize" -> getVariableTag("vectorSize")
      [] pc[p] = "rq_querySize" -> getVariableTag("querySize")
      [] pc[p] = "rq_queryMatrix" -> getVariableTag("queryMatrix")
      [] pc[p] = "rds_dataSetSize" -> getVariableTag("dataSetSize")
      [] pc[p] = "rds_dataSetMatrix" -> getVariableTag("dataSetMatrix")
      [] pc[p] = "rdm_receive" -> getVariableTag("distanceMatrix")
      [] OTHER -> -1
RecvSource(p) == IF isMain(p) THEN pid ELSE mainPID

\* util::send is MPI_Rsend.  A ready send is correct only when the matching
\* receive is already posted; started earlier it is erroneous and its outcome
\* undefined: the message is delivered like a standard send, or the MPI
\* library reports the error, which is fatal to the whole job.
RsendOutcomes(source, target, tag) ==
    IF posted[target] /\ RecvTag(target) = tag /\ RecvSource(target) = source
    THEN { "delivered" }
    ELSE { "delivered", "abort" }

Logged(log, p, entry) == [log EXCEPT ![p] = Append(@, entry)]

\* util::send(data, target, tag) by rank 0, with outcome o.
SendToWorker(target, name, data, o) ==
    /\ toWorker' = IF o = "delivered"
                   THEN [toWorker EXCEPT ![target] =
                            Append(@, Msg(getVariableTag(name), data))]
                   ELSE toWorker
    /\ failure' = IF o = "abort" THEN "abort" ELSE failure
    /\ sentLog' = Logged(sentLog, mainPID,
                    [target |-> target, tag |-> getVariableTag(name), data |-> data])

\* util::send(data, target, tag) by worker p, with outcome o.
SendFromWorker(p, target, name, data, o) ==
    /\ toMain' = IF o = "delivered" /\ isMain(target)
                 THEN [toMain EXCEPT ![p] =
                          Append(@, Msg(getVariableTag(name), data))]
                 ELSE toMain
    /\ toWorker' = IF o = "delivered" /\ ~isMain(target)
                   THEN [toWorker EXCEPT ![target] =
                            Append(@, Msg(getVariableTag(name), data))]
                   ELSE toWorker
    /\ failure' = IF o = "abort" THEN "abort" ELSE failure
    /\ sentLog' = Logged(sentLog, p,
                    [target |-> target, tag |-> getVariableTag(name), data |-> data])

\* A process calls MPI_Recv: the receive is posted and blocks.
PostReceive(p) ==
    /\ failure = "none"
    /\ RecvTag(p) # -1
    /\ ~posted[p]
    /\ posted' = [posted EXCEPT ![p] = TRUE]
    /\ UNCHANGED << inputVars, pc, memberVars, localVars, mainVars, plan, netVars,
                    planVars, flatVars, kernVars, restVars >>

\* The posted receive of p has a matching message in queue.
CanReceive(p, queue) ==
    /\ failure = "none"
    /\ posted[p]
    /\ FirstMatch(queue, RecvTag(p), 1) # 0
Received(p, queue) == queue[FirstMatch(queue, RecvTag(p), 1)].data
AfterReceive(p, queue) == RemoveAt(queue, FirstMatch(queue, RecvTag(p), 1))
RecvEntry(p, count, data) ==
    [source |-> RecvSource(p), tag |-> RecvTag(p), count |-> count, data |-> data]

(*------------------------- rank 0: distributeTask ------------------------*)
\* distributeQuery up to its loop: m_querySize, getBlockSize, blockStart = 0.
\* On an empty query getBlockSize divides by zero and query[0] does not exist.
DistributeQueryBegin ==
    /\ failure = "none"
    /\ pc[mainPID] = "distributeQuery"
    /\ m_querySize' = [m_querySize EXCEPT ![mainPID] = Some(Len(query))]
    /\ \E r \in getBlockSize(Len(query), numOfProcessor) :
         /\ plan' = [plan EXCEPT ![mainPID] = Some(r)]
         /\ pc' = [pc EXCEPT ![mainPID] =
                      IF r.trap THEN "crashed"
                      ELSE IF 1 < r.numProcessor THEN "dq_vectorSize"
                      ELSE "dq_selfQuery"]
    /\ blockStart' = 0
    /\ pid' = 1
    /\ UNCHANGED << inputVars, posted, m_vectorSize, m_dataSetSize, m_selfQuery,
                    m_selfDistanceMatrix, localVars, distanceMatrix, finalMatrix,
                    netVars, planVars, flatVars, kernVars, restVars >>

\* vectorSize = std::size(query[0]).  On an empty query the element does not
\* exist; the value read is then sent to no one.
distributeQuery_vectorSize == IF query = << >> THEN 0 ELSE Len(query[1])

SendVectorSize ==
    /\ failure = "none"
    /\ pc[mainPID] = "dq_vectorSize"
    /\ \E o \in RsendOutcomes(mainPID, pid, getVariableTag("vectorSize")) :
         SendToWorker(pid, "vectorSize", << distributeQuery_vectorSize >>, o)
    /\ pc' = [pc EXCEPT ![mainPID] = "dq_querySize"]
    /\ UNCHANGED << inputVars, posted, memberVars, localVars, mainVars, plan,
                    toMain, recvLog, sendOrder, planVars, flatVars, kernVars, restVars >>

SendQuerySize ==
    /\ failure = "none"
    /\ pc[mainPID] = "dq_querySize"
    /\ \E o \in RsendOutcomes(mainPID, pid, getVariableTag("querySize")) :
         SendToWorker(pid, "querySize", << Len(query) >>, o)
    /\ pc' = [pc EXCEPT ![mainPID] = "dq_queryMatrix"]
    /\ UNCHANGED << inputVars, posted, memberVars, localVars, mainVars, plan,
                    toMain, recvLog, sendOrder, planVars, flatVars, kernVars, restVars >>

\* The rest of the loop body: the block of blockSize rows at blockStart is
\* flattened and sent, blockStart advances, ++pid.
\* blockStart += blockSize; the variant leaves blockStart where it is.
distributeQuery_NextBlockStart_Stuck(start, blockSize) == start
distributeQuery_NextBlockStart(start, blockSize) == start + blockSize

SendQueryMatrix ==
    /\ failure = "none"
    /\ pc[mainPID] = "dq_queryMatrix"
    /\ LET blockSize == Value(plan[mainPID]).blockSize
           flatMatrix == toFlatMatrix(subspan(query, blockStart, blockSize))
       IN  /\ \E o \in RsendOutcomes(mainPID, pid, getVariableTag("queryMatrix")) :
                SendToWorker(pid, "queryMatrix", flatMatrix, o)
           /\ blockStart' = distributeQuery_NextBlockStart(blockStart, blockSize)
    /\ pid' = pid + 1
    /\ pc' = [pc EXCEPT ![mainPID] =
                 IF pid + 1 < Value(plan[mainPID]).numProcessor
                 THEN "dq_vectorSize" ELSE "dq_selfQuery"]
    /\ UNCHANGED << inputVars, posted, memberVars, localVars, plan,
                    distanceMatrix, finalMatrix, toMain, recvLog, sendOrder, planVars, flatVars, kernVars, restVars >>

\* The second loop of distributeQuery: rows blockStart .. querySize-1 are
\* pushed back onto m_selfQuery; the variant keeps every row.
distributeQuery_SelfRows_All == query
distributeQuery_SelfRows == subspan(query, blockStart, Len(query) - blockStart)

KeepSelfQuery ==
    /\ failure = "none"
    /\ pc[mainPID] = "dq_selfQuery"
    /\ m_selfQuery' = [m_selfQuery EXCEPT ![mainPID] = @ \o distributeQuery_SelfRows]
    /\ pc' = [pc EXCEPT ![mainPID] = distributeTask_Next("distributeQuery")]
    /\ UNCHANGED << inputVars, posted, m_vectorSize, m_querySize, m_dataSetSize,
                    m_selfDistanceMatrix, localVars, mainVars, plan, netVars,
                    planVars, flatVars, kernVars, restVars >>

\* The body of the loop of sendDataSet starts with the send of rowCount under
\* dataSetSize, then sends the flat matrix; the variant sends the matrix only.
sendDataSet_LoopBody_MatrixOnly == "sds_dataSetMatrix"
sendDataSet_LoopBody == "sds_dataSetSize"

\* sendDataSet up to its loop: the ASSERT_ERROR on an empty dataSet raises.
SendDataSetBegin ==
    /\ failure = "none"
    /\ pc[mainPID] = "sendDataSet"
    /\ IF dataSet = << >>
       THEN /\ pc' = [pc EXCEPT ![mainPID] = "error"]
            /\ UNCHANGED << m_dataSetSize, pid >>
       ELSE /\ m_dataSetSize' = [m_dataSetSize EXCEPT ![mainPID] = Some(Len(dataSet))]
            /\ pid' = 1
            /\ pc' = [pc EXCEPT ![mainPID] =
                         IF 1 < numOfProcessor THEN sendDataSet_LoopBody
                         ELSE distributeTask_Next("sendDataSet")]
    /\ UNCHANGED << inputVars, posted, m_vectorSize, m_querySize, m_selfQuery,
                    m_selfDistanceMatrix, localVars, blockStart, plan,
                    distanceMatrix, finalMatrix, netVars, planVars, flatVars, kernVars, restVars >>

SendDataSetSize ==
    /\ failure = "none"
    /\ pc[mainPID] = "sds_dataSetSize"
    /\ \E o \in RsendOutcomes(mainPID, pid, getVariableTag("dataSetSize")) :
         SendToWorker(pid, "dataSetSize", << Len(dataSet) >>, o)
    /\ pc' = [pc EXCEPT ![mainPID] = "sds_dataSetMatrix"]
    /\ UNCHANGED << inputVars, posted, memberVars, localVars, mainVars, plan,
                    toMain, recvLog, sendOrder, planVars, flatVars, kernVars, restVars >>

SendDataSetMatrix ==
    /\ failure = "none"
    /\ pc[mainPID] = "sds_dataSetMatrix"
    /\ \E o \in RsendOutcomes(mainPID, pid, getVariableTag("dataSetMatrix")) :
         SendToWorker(pid, "dataSetMatrix", toFlatMatrix(dataSet), o)
    /\ pid' = pid + 1
    /\ pc' = [pc EXCEPT ![mainPID] =
                 IF pid + 1 < numOfProcessor THEN sendDataSet_LoopBody
                 ELSE distributeTask_Next("sendDataSet")]
    /\ UNCHANGED << inputVars, posted, memberVars, localVars, blockStart, plan,
                    distanceMatrix, finalMatrix, toMain, recvLog, sendOrder, planVars, flatVars, kernVars, restVars >>

(*--------------------------- receiveQuery --------------------------------*)
\* At rank 0 receiveQuery returns m_selfQuery.
ReceiveQueryMain ==
    /\ failure = "none"
    /\ pc[mainPID] = "receiveQuery"
    /\ localQuery' = [localQuery EXCEPT ![mainPID] = Some(m_selfQuery[mainPID])]
    /\ pc' = [pc EXCEPT ![mainPID] = DriverNext(mainPID, "receiveQuery")]
    /\ UNCHANGED << inputVars, posted, memberVars, localDataSet, localDistance,
                    mainVars, plan, netVars, planVars, flatVars, kernVars, restVars >>

ReceiveVectorSize(p) ==
    /\ pc[p] = "rq_vectorSize"
    /\ CanReceive(p, toWorker[p])
    /\ m_vectorSize' = [m_vectorSize EXCEPT ![p] = Some(Received(p, toWorker[p])[1])]
    /\ toWorker' = [toWorker EXCEPT ![p] = AfterReceive(p, @)]
    /\ recvLog' = Logged(recvLog, p, RecvEntry(p, 1, Received(p, toWorker[p])))
    /\ posted' = [posted EXCEPT ![p] = FALSE]
    /\ pc' = [pc EXCEPT ![p] = "rq_querySize"]
    /\ UNCHANGED << inputVars, m_querySize, m_dataSetSize, m_selfQuery,
                    m_selfDistanceMatrix, localVars, mainVars, plan, toMain,
                    failure, sentLog, sendOrder, planVars, flatVars, kernVars, restVars >>

\* querySize is received and getBlockSize(querySize) gives the block size.
ReceiveQuerySize(p) ==
    /\ pc[p] = "rq_querySize"
    /\ CanReceive(p, toWorker[p])
    /\ \E r \in getBlockSize(Received(p, toWorker[p])[1], numOfProcessor) :
         /\ plan' = [plan EXCEPT ![p] = Some(r)]
         /\ pc' = [pc EXCEPT ![p] = IF r.trap THEN "crashed" ELSE "rq_queryMatrix"]
    /\ toWorker' = [toWorker EXCEPT ![p] = AfterReceive(p, @)]
    /\ recvLog' = Logged(recvLog, p, RecvEntry(p, 1, Received(p, toWorker[p])))
    /\ posted' = [posted EXCEPT ![p] = FALSE]
    /\ UNCHANGED << inputVars, memberVars, localVars, mainVars, toMain,
                    failure, sentLog, sendOrder, planVars, flatVars, kernVars, restVars >>

\* blockSize * m_vectorSize elements are received and cut into blockSize rows
\* of m_vectorSize elements.
ReceiveQueryMatrix(p) ==
    /\ pc[p] = "rq_queryMatrix"
    /\ CanReceive(p, toWorker[p])
    /\ LET blockSize == Value(plan[p]).blockSize
           vectorSize == Value(m_vectorSize[p])
           count == blockSize * vectorSize
           data == Received(p, toWorker[p])
       IN  /\ recvLog' = Logged(recvLog, p, RecvEntry(p, count, data))
           /\ IF RecvTruncated(count, data)
              THEN /\ failure' = "abort"
                   /\ UNCHANGED << localQuery, pc >>
              ELSE /\ localQuery' = [localQuery EXCEPT ![p] =
                          Some(SplitRows(RecvBuffer(count, data), vectorSize, blockSize))]
                   /\ pc' = [pc EXCEPT ![p] = DriverNext(p, "receiveQuery")]
                   /\ UNCHANGED failure
    /\ toWorker' = [toWorker EXCEPT ![p] = AfterReceive(p, @)]
    /\ posted' = [posted EXCEPT ![p] = FALSE]
    /\ UNCHANGED << inputVars, memberVars, localDataSet, localDistance, mainVars,
                    plan, toMain, sentLog, sendOrder, planVars, flatVars, kernVars, restVars >>

(*--------------------------- receiveDataSet ------------------------------*)
\* m_vectorSize is known from receiveQuery; m_dataSetSize is received.
ReceiveDataSetSize(p) ==
    /\ pc[p] = "rds_dataSetSize"
    /\ CanReceive(p, toWorker[p])
    /\ m_dataSetSize' = [m_dataSetSize EXCEPT ![p] = Some(Received(p, toWorker[p])[1])]
    /\ toWorker' = [toWorker EXCEPT ![p] = AfterReceive(p, @)]
    /\ recvLog' = Logged(recvLog, p, RecvEntry(p, 1, Received(p, toWorker[p])))
    /\ posted' = [posted EXCEPT ![p] = FALSE]
    /\ pc' = [pc EXCEPT ![p] = "rds_dataSetMatrix"]
    /\ UNCHANGED << inputVars, m_vectorSize, m_querySize, m_selfQuery,
                    m_selfDistanceMatrix, localVars, mainVars, plan, toMain,
                    failure, sentLog, sendOrder, planVars, flatVars, kernVars, restVars >>

\* m_dataSetSize * m_vectorSize elements are received and cut into
\* m_dataSetSize rows of m_vectorSize elements.
ReceiveDataSetMatrix(p) ==
    /\ pc[p] = "rds_dataSetMatrix"
    /\ CanReceive(p, toWorker[p])
    /\ LET rowCount == Value(m_dataSetSize[p])
           vectorSize == Value(m_vectorSize[p])
           count == rowCount * vectorSize
           data == Received(p, toWorker[p])
       IN  /\ recvLog' = Logged(recvLog, p, RecvEntry(p, count, data))
           /\ IF RecvTruncated(count, data)
              THEN /\ failure' = "abort"
                   /\ UNCHANGED << localDataSet, pc >>
              ELSE /\ localDataSet' = [localDataSet EXCEPT ![p] =
                          Some(SplitRows(RecvBuffer(count, data), vectorSize, rowCount))]
                   /\ pc' = [pc EXCEPT ![p] = DriverNext(p, "receiveDataSet")]
                   /\ UNCHANGED failure
    /\ toWorker' = [toWorker EXCEPT ![p] = AfterReceive(p, @)]
    /\ posted' = [posted EXCEPT ![p] = FALSE]
    /\ UNCHANGED << inputVars, memberVars, localQuery, localDistance, mainVars,
                    plan, toMain, sentLog, sendOrder, planVars, flatVars, kernVars, restVars >>

(*--------------------------- computeDistance -----------------------------*)
\* The caller computes the distances of its query slice to the dataset it
\* holds: rank 0 the one it distributed, a worker the one it received.
HeldDataSet(p) == IF isMain(p) THEN dataSet ELSE Value(localDataSet[p])

ComputeDistance(p) ==
    /\ failure = "none"
    /\ pc[p] = "computeDistance"
    /\ LET r == MathKernel_computeDistance(Value(localQuery[p]), HeldDataSet(p), metric)
       IN  IF r.error
           THEN /\ pc' = [pc EXCEPT ![p] = "error"]
                /\ UNCHANGED localDistance
           ELSE /\ localDistance' = [localDistance EXCEPT ![p] = Some(r.matrix)]
                /\ pc' = [pc EXCEPT ![p] = DriverNext(p, "computeDistance")]
    /\ UNCHANGED << inputVars, posted, memberVars, localQuery, localDataSet,
                    mainVars, plan, netVars, planVars, flatVars, kernVars, restVars >>

(*------------------------- sendDistanceMatrix ----------------------------*)
SendDistanceMatrixMain ==
    /\ failure = "none"
    /\ pc[mainPID] = "sendDistanceMatrix"
    /\ m_selfDistanceMatrix' =
         [m_selfDistanceMatrix EXCEPT ![mainPID] = Value(localDistance[mainPID])]
    /\ pc' = [pc EXCEPT ![mainPID] = DriverNext(mainPID, "sendDistanceMatrix")]
    /\ UNCHANGED << inputVars, posted, m_vectorSize, m_querySize, m_dataSetSize,
                    m_selfQuery, localVars, mainVars, plan, netVars,
                    planVars, flatVars, kernVars, restVars >>

\* A worker's sendDistanceMatrix sends to mainPID; the variant sends to the
\* worker's own rank.
sendDistanceMatrix_Self(p) == p
sendDistanceMatrix_Target(p) == mainPID

SendDistanceMatrixWorker(p) ==
    /\ failure = "none"
    /\ ~isMain(p)
    /\ pc[p] = "sendDistanceMatrix"
    /\ \E o \in RsendOutcomes(p, sendDistanceMatrix_Target(p),
                              getVariableTag("distanceMatrix")) :
         SendFromWorker(p, sendDistanceMatrix_Target(p), "distanceMatrix",
                        toFlatMatrix(Value(localDistance[p])), o)
    /\ sendOrder' = Append(sendOrder, p)
    /\ pc' = [pc EXCEPT ![p] = DriverNext(p, "sendDistanceMatrix")]
    /\ UNCHANGED << inputVars, posted, memberVars, localVars, mainVars, plan,
                    recvLog, planVars, flatVars, kernVars, restVars >>

(*------------------------ receiveDistanceMatrix --------------------------*)
\* The loop runs pid over 1 .. numOfProcessor() - 1; the variant stops one
\* rank earlier.
receiveDistanceMatrix_LoopEnd_Short == numOfProcessor - 1
receiveDistanceMatrix_LoopEnd == numOfProcessor

\* The rows of the own matrix are moved to the end of distanceMatrix; the
\* variant puts them in front.
moveSelfRows_First(matrix, selfMatrix) == selfMatrix \o matrix
moveSelfRows(matrix, selfMatrix) == matrix \o selfMatrix

\* The three ASSERT_DEBUG preconditions.
receiveDistanceMatrix_Asserts ==
    /\ HasValue(m_querySize[mainPID])
    /\ HasValue(m_dataSetSize[mainPID])
    /\ m_selfDistanceMatrix[mainPID] # << >>

\* Up to the loop.  A failed ASSERT_DEBUG raises where debug assertions are
\* enabled and is skipped where they are not.
ReceiveDistanceMatrixBegin ==
    /\ failure = "none"
    /\ pc[mainPID] = "receiveDistanceMatrix"
    /\ \E raised \in IF receiveDistanceMatrix_Asserts THEN { FALSE } ELSE { TRUE, FALSE } :
       \E r \in getBlockSize(Value(m_querySize[mainPID]), numOfProcessor) :
         /\ plan' = [plan EXCEPT ![mainPID] = IF raised THEN @ ELSE Some(r)]
         /\ pc' = [pc EXCEPT ![mainPID] =
                      IF raised THEN "error"
                      ELSE IF r.trap THEN "crashed"
                      ELSE IF 1 < receiveDistanceMatrix_LoopEnd THEN "rdm_receive"
                      ELSE "rdm_self"]
    /\ distanceMatrix' = << >>
    /\ pid' = 1
    /\ UNCHANGED << inputVars, posted, memberVars, localVars, blockStart,
                    finalMatrix, netVars, planVars, flatVars, kernVars, restVars >>

\* The loop body: flatSize elements are received from pid, split into rows of
\* m_dataSetSize elements and appended.
ReceiveDistanceMatrixFrom ==
    /\ pc[mainPID] = "rdm_receive"
    /\ CanReceive(mainPID, toMain[pid])
    /\ LET rowSize == Value(m_dataSetSize[mainPID])
           flatSize == Value(plan[mainPID]).blockSize * rowSize
           data == Received(mainPID, toMain[pid])
       IN  /\ recvLog' = Logged(recvLog, mainPID, RecvEntry(mainPID, flatSize, data))
           /\ IF RecvTruncated(flatSize, data)
              THEN /\ failure' = "abort"
                   /\ UNCHANGED << distanceMatrix, pc, pid >>
              ELSE /\ \E r \in splitFlatMatrix(RecvBuffer(flatSize, data), rowSize) :
                        /\ distanceMatrix' = distanceMatrix \o r.matrix
                        /\ pc' = [pc EXCEPT ![mainPID] =
                                     IF r.trap THEN "crashed"
                                     ELSE IF pid + 1 < receiveDistanceMatrix_LoopEnd
                                     THEN "rdm_receive"
                                     ELSE "rdm_self"]
                   /\ pid' = pid + 1
                   /\ UNCHANGED failure
    /\ toMain' = [toMain EXCEPT ![pid] = AfterReceive(mainPID, @)]
    /\ posted' = [posted EXCEPT ![mainPID] = FALSE]
    /\ UNCHANGED << inputVars, memberVars, localVars, blockStart, plan,
                    finalMatrix, toWorker, sentLog, sendOrder, planVars,
                    flatVars, kernVars, restVars >>

\* m_selfDistanceMatrix.clear() after the move; the variant keeps the rows.
receiveDistanceMatrix_SelfAfter_Kept == m_selfDistanceMatrix[mainPID]
receiveDistanceMatrix_SelfAfter == << >>

\* After the loop: the rows of m_selfDistanceMatrix are moved to the end,
\* m_selfDistanceMatrix is cleared and the matrix is returned.
ReceiveDistanceMatrixEnd ==
    /\ failure = "none"
    /\ pc[mainPID] = "rdm_self"
    /\ distanceMatrix' = moveSelfRows(distanceMatrix, m_selfDistanceMatrix[mainPID])
    /\ m_selfDistanceMatrix' =
         [m_selfDistanceMatrix EXCEPT ![mainPID] = receiveDistanceMatrix_SelfAfter]
    /\ finalMatrix' = Some(distanceMatrix')
    /\ pc' = [pc EXCEPT ![mainPID] = "done"]
    /\ UNCHANGED << inputVars, posted, m_vectorSize, m_querySize, m_dataSetSize,
                    m_selfQuery, localVars, pid, blockStart, plan, netVars,
                    planVars, flatVars, kernVars, restVars >>

Next ==
    \/ DistributeQueryBegin
    \/ SendVectorSize
    \/ SendQuerySize
    \/ SendQueryMatrix
    \/ KeepSelfQuery
    \/ SendDataSetBegin
    \/ SendDataSetSize
    \/ SendDataSetMatrix
    \/ ReceiveQueryMain
    \/ SendDistanceMatrixMain
    \/ ReceiveDistanceMatrixBegin
    \/ ReceiveDistanceMatrixFrom
    \/ ReceiveDistanceMatrixEnd
    \/ \E p \in Ranks : PostReceive(p) \/ ComputeDistance(p)
    \/ \E p \in Workers :
         \/ ReceiveVectorSize(p)
         \/ ReceiveQuerySize(p)
         \/ ReceiveQueryMatrix(p)
         \/ ReceiveDataSetSize(p)
         \/ ReceiveDataSetMatrix(p)
         \/ SendDistanceMatrixWorker(p)

Spec == Init /\ [][Next]_vars

\* Every process runs on its own and is scheduled by its operating system:
\* a process that can take a step takes one in the end.
SpecFair == Init /\ [][Next]_vars /\ WF_vars(Next)

(***************************************************************************)
(* SpecKernel: one call of computeDistance, on the sequential MathKernel   *)
(* or on the parallel MTMathKernel.                                        *)
(***************************************************************************)
\* A table whose row i has lens[i] elements, all cells distinct and nonzero.
KernTable(lens, base) ==
    [i \in 1..Len(lens) |-> [k \in 1..lens[i] |-> base + (i - 1) * KernMaxDim + k]]
KernTables(base) ==
    UNION { { KernTable(lens, base) : lens \in [1..R -> 0..KernMaxDim] } :
            R \in 0..KernMaxRows }

\* The tables of the tests "Check MathEngine simple test".
TestQuery == << << 1, 2, 3 >>, << 2, 3, 4 >>, << 3, 4, 5 >> >>
TestDataSet == << << 3, 4, 5 >>, << 2, 3, 4 >>, << 1, 2, 3 >> >>

KernelInit ==
    /\ kQuery \in KernTables(0) \cup { TestQuery }
    /\ kDataSet \in KernTables(1) \cup { TestDataSet }
    /\ kMetric \in Metrics
    /\ kKernel \in { "sequential", "parallel" }
    /\ kPc = "call"
    /\ result = << >>
    /\ unhandled = { }
    /\ running = { }
    /\ writers = << >>
    /\ dimensionalError = FALSE
    /\ kRet = None
    /\ raisedAt = << >>
    /\ PlanIdle /\ FlatIdle /\ ProtoIdle /\ RestIdle

\* MathKernel::computeDistance: the whole call; the ASSERT_ERROR raises.
CallMathKernel ==
    /\ kKernel = "sequential"
    /\ kPc = "call"
    /\ LET r == MathKernel_computeDistance(kQuery, kDataSet, kMetric)
       IN  /\ result' = r.matrix
           /\ kRet' = IF r.error THEN None ELSE Some(r.matrix)
           /\ kPc' = IF r.error THEN "error" ELSE "returned"
           /\ raisedAt' = r.at
    /\ UNCHANGED << kQuery, kDataSet, kMetric, kKernel, unhandled, running, writers,
                    dimensionalError, planVars, flatVars, protoVars, restVars >>

\* MTMathKernel::computeDistance up to std::for_each: createMatrix, the flag.
StartMTMathKernel ==
    /\ kKernel = "parallel"
    /\ kPc = "call"
    /\ result' = createMatrix(Len(kQuery), Len(kDataSet))
    /\ dimensionalError' = FALSE
    /\ unhandled' = 1..Len(kQuery)
    /\ running' = { }
    /\ writers' = [r \in 1..Len(kQuery) |-> { }]
    /\ kPc' = "for_each"
    /\ UNCHANGED << kQuery, kDataSet, kMetric, kKernel, kRet, raisedAt,
                    planVars, flatVars, protoVars, restVars >>

\* The loop of handleQueryVector over the dataset from dataSetIdx on: the row
\* as written so far and whether it stopped at vectors of different sizes.
RECURSIVE RowLoop(_, _, _, _, _)
RowLoop(queryVec, dataSetView, fn, row, dataSetIdx) ==
    IF dataSetIdx > Len(dataSetView)
    THEN [error |-> FALSE, row |-> row]
    ELSE IF Len(queryVec) # Len(dataSetView[dataSetIdx])
    THEN [error |-> TRUE, row |-> row]
    ELSE RowLoop(queryVec, dataSetView, fn,
                 [row EXCEPT ![dataSetIdx] =
                     distance(fn, queryVec, dataSetView[dataSetIdx])],
                 dataSetIdx + 1)

\* dimensionalError is a plain bool shared by the threads of the parallel
\* for_each: a handler that reads it while another has set it may see either
\* value.
FlagReads == IF dimensionalError THEN { TRUE, FALSE } ELSE { FALSE }

\* queryIdx = &queryVec - &*std::begin(query): the row of the result that
\* the handler of the i-th query vector writes; the variant writes the first.
handleQueryVector_queryIdx_First(i) == 1
handleQueryVector_queryIdx(i) == i

\* The unit of the i-th query vector stores at least one cell: the dataset
\* has a first vector, and it is as long as the query vector.
StoresCell(i) ==
    Len(kDataSet) >= 1 /\ Len(kQuery[i]) = Len(kDataSet[1])

\* The flag is declared `bool dimensionalError = false;`: neither a
\* std::atomic nor guarded by a lock.
dimensionalError_IsAtomic == FALSE

\* handleQueryVector on the i-th query vector, run by some thread: the check
\* of the flag at its entry.  A unit that sees the flag set skips the row.
HandleQueryVector_Check(i) ==
    /\ kPc = "for_each"
    /\ i \in unhandled
    /\ \E seen \in FlagReads :
         running' = IF seen THEN running ELSE running \cup { i }
    /\ unhandled' = unhandled \ { i }
    /\ UNCHANGED << kQuery, kDataSet, kMetric, kKernel, kPc, result, writers,
                    dimensionalError, kRet, raisedAt,
                    planVars, flatVars, protoVars, restVars >>

\* The loop over the dataset of a unit that did not skip: the cells of row
\* queryIdx up to the first vector of another size, where the flag is set.
HandleQueryVector_Row(i) ==
    /\ kPc = "for_each"
    /\ i \in running
    /\ running' = running \ { i }
    /\ LET queryIdx == handleQueryVector_queryIdx(i)
           r == RowLoop(kQuery[i], kDataSet, kMetric, result[queryIdx], 1)
       IN  /\ result' = [result EXCEPT ![queryIdx] = r.row]
           /\ writers' = IF StoresCell(i)
                         THEN [writers EXCEPT ![queryIdx] = @ \cup { i }]
                         ELSE writers
           /\ dimensionalError' = (dimensionalError \/ r.error)
    /\ UNCHANGED << kQuery, kDataSet, kMetric, kKernel, kPc, unhandled, kRet,
                    raisedAt, planVars, flatVars, protoVars, restVars >>

HandleQueryVector(i) ==
    \/ HandleQueryVector_Check(i)
    \/ HandleQueryVector_Row(i)

\* std::for_each(std::execution::par, ...) returns when every application
\* of the handler has returned; the variant returns when every one has
\* started.
for_each_Returns_Started == unhandled = { }
for_each_Returns == unhandled = { } /\ running = { }

\* ASSERT_ERROR(!dimensionalError) raises when the flag is set; the variant
\* never raises.
MTMathKernel_Raises_Never(flag) == FALSE
MTMathKernel_Raises(flag) == flag

\* std::for_each has returned: ASSERT_ERROR(!dimensionalError), return result.
ReturnMTMathKernel ==
    /\ kPc = "for_each"
    /\ for_each_Returns
    /\ kRet' = IF MTMathKernel_Raises(dimensionalError) THEN None ELSE Some(result)
    /\ kPc' = IF MTMathKernel_Raises(dimensionalError) THEN "error" ELSE "returned"
    /\ UNCHANGED << kQuery, kDataSet, kMetric, kKernel, result, unhandled,
                    running, writers, dimensionalError, raisedAt, planVars, flatVars, protoVars, restVars >>

KernelNext ==
    \/ CallMathKernel
    \/ StartMTMathKernel
    \/ \E queryIdx \in 1..Len(kQuery) : HandleQueryVector(queryIdx)
    \/ ReturnMTMathKernel

SpecKernel == KernelInit /\ [][KernelNext]_vars

\* The threads of std::for_each and the calling thread are scheduled by the
\* operating system: a step that can be taken is taken in the end.  Every
\* step of the call changes where the call or one of the units is.
kernProgress == << kPc, unhandled, running >>
SpecKernelFair ==
    KernelInit /\ [][KernelNext]_vars /\ WF_kernProgress(KernelNext)

\* C10: whenever computeDistance returns a matrix, on the sequential and on
\* the parallel kernel, the matrix has exactly len(query) rows of exactly
\* len(dataset) entries each, also for an empty query or an empty dataset.
C10_OutputShape ==
    HasValue(kRet) =>
        /\ Len(Value(kRet)) = Len(kQuery)
        /\ \A i \in 1..Len(Value(kRet)) : Len(Value(kRet)[i]) = Len(kDataSet)
C10_Witness ==
    /\ HasValue(kRet)
    /\ kKernel = "parallel"
    /\ Len(kQuery) = 2 /\ Len(kDataSet) = 1 /\ Len(kQuery[1]) = 1
    /\ Len(Value(kRet)) = 2
    /\ Len(Value(kRet)[2]) = 1
\* The same for the sequential kernel on an empty dataset and for the
\* parallel kernel on an empty query.
C10_ReachedSequentialEmptyDataSet ==
    HasValue(kRet) /\ kKernel = "sequential" /\ Len(kQuery) = 2 /\ kDataSet = << >>
C10_ReachedParallelEmptyQuery ==
    HasValue(kRet) /\ kKernel = "parallel" /\ kQuery = << >> /\ Len(kDataSet) = 2

\* What the sequential kernel gives on the arguments of the call.
Sequential_k == MathKernel_computeDistance(kQuery, kDataSet, kMetric)
\* The call on the named kernel has ended, with a matrix or with the error.
Ended(kernel) == kKernel = kernel /\ kPc \in { "returned", "error" }
\* The pairs (i, j) with query[i] and dataset[j] of different lengths.
Mismatches ==
    { p \in (1..Len(kQuery)) \X (1..Len(kDataSet)) :
        Len(kQuery[p[1]]) # Len(kDataSet[p[2]]) }
\* Equality of cells or matrices, whatever the kind of their cells.
SameValue(a, b) == ToString(a) = ToString(b)
\* p comes before q in row-major order.
RowMajorBefore(p, q) == p[1] < q[1] \/ (p[1] = q[1] /\ p[2] < q[2])

\* The sum over k of |a[k] - b[k]|, from the last position down.
RECURSIVE AbsDiffSum(_, _, _)
AbsDiffSum(a, b, k) ==
    IF k = 0 THEN 0
    ELSE AbsDiffSum(a, b, k - 1) + (IF a[k] >= b[k] THEN a[k] - b[k] ELSE b[k] - a[k])
\* The number of positions at which a and b differ.
DifferingPositions(a, b) == Cardinality({ k \in 1..Len(a) : a[k] # b[k] })

\* C11: with metric L1, for a query and dataset of equal vector dimension,
\* result[i][j] is the sum over k of |query[i][k] - dataset[j][k]|; on the
\* tables of the test the result is [[6,3,0],[3,0,3],[0,3,6]].
C11_L1Distance ==
    (HasValue(kRet) /\ kMetric = "L1") =>
        /\ \A i \in 1..Len(kQuery), j \in 1..Len(kDataSet) :
             Value(kRet)[i][j] = AbsDiffSum(kQuery[i], kDataSet[j], Len(kQuery[i]))
        /\ (kQuery = TestQuery /\ kDataSet = TestDataSet) =>
             Value(kRet) = << << 6, 3, 0 >>, << 3, 0, 3 >>, << 0, 3, 6 >> >>
C11_Witness ==
    /\ HasValue(kRet) /\ kMetric = "L1" /\ kKernel = "sequential"
    /\ kQuery = TestQuery /\ kDataSet = TestDataSet
    /\ Value(kRet)[1] = << 6, 3, 0 >>

\* C12: with metric Hamming on integer vectors of equal dimension,
\* result[i][j] is the number of positions k with query[i][k] # dataset[j][k];
\* on the tables of the test the result is [[3,3,0],[3,0,3],[0,3,3]].
C12_HammingDistance ==
    (HasValue(kRet) /\ kMetric = "Hamming") =>
        /\ \A i \in 1..Len(kQuery), j \in 1..Len(kDataSet) :
             Value(kRet)[i][j] = DifferingPositions(kQuery[i], kDataSet[j])
        /\ (kQuery = TestQuery /\ kDataSet = TestDataSet) =>
             Value(kRet) = << << 3, 3, 0 >>, << 3, 0, 3 >>, << 0, 3, 3 >> >>
C12_Witness ==
    /\ HasValue(kRet) /\ kMetric = "Hamming" /\ kKernel = "sequential"
    /\ kQuery = TestQuery /\ kDataSet = TestDataSet
    /\ Value(kRet)[1] = << 3, 3, 0 >>

\* C14: whenever the sequential kernel returns a matrix for a query, dataset
\* and metric, the parallel kernel returns the same matrix, in every
\* interleaving of its row handlers.
C14_ParallelEqualsSequential ==
    (Ended("parallel") /\ ~Sequential_k.error) =>
        /\ HasValue(kRet)
        /\ SameValue(Value(kRet), Sequential_k.matrix)
C14_Witness ==
    /\ Ended("parallel") /\ HasValue(kRet)
    /\ kQuery = TestQuery /\ kDataSet = TestDataSet /\ kMetric = "L2"
    /\ Value(kRet) = Sequential_k.matrix
    /\ Value(kRet)[1][1] = sqrt(12)

\* C15: the sequential kernel, given some pair (query[i], dataset[j]) of
\* different lengths, raises the error at the first such pair in row-major
\* order, has computed every cell before it and none from it on, and returns
\* no matrix.
C15_SequentialFailsFast ==
    (Ended("sequential") /\ Mismatches # { }) =>
        /\ kPc = "error"
        /\ kRet = None
        /\ raisedAt \in Mismatches
        /\ \A p \in Mismatches : p = raisedAt \/ RowMajorBefore(raisedAt, p)
        /\ \A i \in 1..Len(kQuery), j \in 1..Len(kDataSet) :
             SameValue(result[i][j],
                       IF RowMajorBefore(<< i, j >>, raisedAt)
                       THEN distance(kMetric, kQuery[i], kDataSet[j])
                       ELSE 0)
C15_Witness ==
    /\ Ended("sequential") /\ kPc = "error" /\ kRet = None
    /\ kMetric = "L1"
    /\ Len(kQuery) = 2 /\ Len(kDataSet) = 2
    /\ raisedAt = << 1, 2 >>
    /\ result = << << 1, 0 >>, << 0, 0 >> >>
    /\ Len(kQuery[2]) = Len(kDataSet[1])

\* C16: the parallel kernel raises the dimension-mismatch error exactly when
\* the sequential kernel does, that is exactly when some pair (query[i],
\* dataset[j]) differs in length, in every interleaving of its row handlers,
\* and then returns no matrix.
C16_ParallelRaisesIffSequential ==
    Ended("parallel") =>
        /\ (kPc = "error") <=> (Mismatches # { })
        /\ (kPc = "error") <=> Sequential_k.error
        /\ (kPc = "error") => kRet = None
C16_Witness ==
    /\ Ended("parallel") /\ kPc = "error" /\ kRet = None
    /\ Len(kQuery) = 2 /\ Len(kDataSet) = 1
    /\ Mismatches = { << 2, 1 >> }
    /\ Sequential_k.error

\* A unit begins a row: its handler goes past the check of the flag.
BeginsRow(i) == i \notin running /\ i \in running'
\* The unit of query vector i will set the flag in its loop.
SetsFlag(i) == \E j \in 1..Len(kDataSet) : Len(kQuery[i]) # Len(kDataSet[j])

\* C27: once a unit of the parallel kernel has found a dimension mismatch
\* and set the flag, no unit begins the computation of a query row it had
\* not started already: every unit checks the flag before a row and skips
\* the row when the flag is set.
C27_NoRowBeginsAfterFlag ==
    [][dimensionalError => \A i \in 1..Len(kQuery) : ~ BeginsRow(i)]_vars

\* What holds: every row is begun from the check of the flag, and a unit
\* skips its row only when the flag has been set.
RowBeginsAtCheck ==
    [][/\ \A i \in 1..Len(kQuery) : BeginsRow(i) => i \in unhandled
       /\ (kPc = "for_each" /\ unhandled' # unhandled /\ running' = running)
             => dimensionalError]_vars
\* The flag is set with a row in its loop: that row was begun before the flag
\* was set or after it.
FlagSetWithRowInLoop ==
    kPc = "for_each" /\ dimensionalError /\ running # { } /\ unhandled = { }

\* One unit is in the loop in which it will write the flag while another
\* unit is before its read of the flag or in a loop in which it will write
\* it: nothing orders the two accesses.
ConcurrentFlagAccess ==
    /\ kPc = "for_each"
    /\ \E i \in running :
          /\ SetsFlag(i)
          /\ \E j \in (unhandled \cup running) \ { i } :
                j \in unhandled \/ SetsFlag(j)

\* C28: in the parallel kernel the flag is accessed only by atomic or
\* otherwise synchronized operations: in no reachable state one unit writes
\* the flag while another unit reads or writes it without synchronization.
C28_FlagAccessSynchronised ==
    ConcurrentFlagAccess => dimensionalError_IsAtomic

\* C29: in the parallel kernel every row of the result is written by
\* exactly one unit: only the unit of query[i] stores cells of result[i], in
\* every interleaving, and when the call returns a matrix of at least one
\* column that unit has stored them.
C29_RowWrittenByOneUnit ==
    (kKernel = "parallel" /\ kPc # "call") =>
        /\ DOMAIN writers = 1..Len(kQuery)
        /\ \A r \in 1..Len(kQuery) :
              /\ writers[r] \subseteq { r }
              /\ (kPc = "returned" /\ kDataSet # << >>) => writers[r] = { r }
              /\ writers[r] = { } => result[r] = [j \in 1..Len(kDataSet) |-> 0]
C29_Witness ==
    /\ kKernel = "parallel" /\ kPc = "returned"
    /\ kQuery = TestQuery /\ kDataSet = TestDataSet
    /\ writers = << { 1 }, { 2 }, { 3 } >>

\* C30: the parallel computeDistance always ends, and returns or raises only
\* after every unit has finished: no unit is before its row or in it when
\* the call completes, for every input.
C30_TerminatesAfterAllUnits ==
    /\ [] (Ended("parallel") => (unhandled = { } /\ running = { }))
    /\ (kKernel = "parallel" /\ kPc = "call") ~> Ended("parallel")
\* The call has raised after three units, one of which had skipped its row.
C30_Witness ==
    /\ Ended("parallel") /\ kPc = "error"
    /\ Len(kQuery) = 3
    /\ unhandled = { } /\ running = { }
    /\ Cardinality({ r \in 1..3 : writers[r] = { } }) >= 1

(***************************************************************************)
(* SpecInt: computeDistance(S, S, metric) of MathKernel<int>, the metric   *)
(* functions instantiated with T = int.                                    *)
(***************************************************************************)
IntMin == -(2 ^ (IntBits - 1))
IntMax == 2 ^ (IntBits - 1) - 1
IntRange == IntMin..IntMax
\* The value the machine leaves when an int operation overflows.
Wrap(x) == ((x - IntMin) % (2 ^ IntBits)) + IntMin
\* The largest r >= 0 with r * r <= x.
ISqrt(x) == CHOOSE r \in 0..x : r * r <= x /\ x < (r + 1) * (r + 1)

\* One step of the loop of computeL1Distance<int>: distance +=
\* std::abs(first[vecIdx] - second[vecIdx]), every operation in int.  The
\* variant drops the abs.
L1Step_int_Signed(sum, a, b) ==
    [overflow |-> (a - b) \notin IntRange \/ sum + Wrap(a - b) \notin IntRange,
     value |-> Wrap(sum + Wrap(a - b))]
L1Step_int(sum, a, b) ==
    LET diff == Wrap(a - b)
        abs == Wrap(Abs(diff))
    IN  [overflow |-> \/ (a - b) \notin IntRange
                      \/ Abs(diff) \notin IntRange
                      \/ sum + abs \notin IntRange,
         value |-> Wrap(sum + abs)]

\* One step of the loop of computeL2Distance<int>: diff and diff * diff are
\* int, the product is converted to long double and added to distance.
L2Step_int(sum, a, b) ==
    LET diff == Wrap(a - b)
    IN  [overflow |-> (a - b) \notin IntRange \/ diff * diff \notin IntRange,
         value |-> sum + Wrap(diff * diff)]

\* One step of the loop of computeHammingDistance<int>.
HammingStep_int(sum, a, b) ==
    IF a # b
    THEN [overflow |-> sum + 1 \notin IntRange, value |-> Wrap(sum + 1)]
    ELSE [overflow |-> FALSE, value |-> sum]

Step_int(fn, sum, a, b) ==
    CASE fn = "L1" -> L1Step_int(sum, a, b)
      [] fn = "L2" -> L2Step_int(sum, a, b)
      [] fn = "Hamming" -> HammingStep_int(sum, a, b)

\* The loop over vecIdx from distance = 0 (sum): the accumulated value and whether
\* an int operation overflowed on the way.
RECURSIVE Loop_int(_, _, _, _, _)
Loop_int(fn, first, second, vecIdx, acc) ==
    IF vecIdx > Len(first) THEN acc
    ELSE LET step == Step_int(fn, acc.value, first[vecIdx], second[vecIdx])
         IN  Loop_int(fn, first, second, vecIdx + 1,
                      [overflow |-> acc.overflow \/ step.overflow,
                       value |-> step.value])

\* static_cast<int>(x) of a long double that is NaN or beyond the int range
\* is undefined: an x86 conversion leaves INT_MIN, an ARM conversion leaves 0
\* for NaN and the nearest int otherwise.
CastUnrepresentable(cast, isNaN) ==
    IF cast = "x86" THEN IntMin ELSE IF isNaN THEN 0 ELSE IntMax

computeL1Distance_int(first, second, cast) ==
    Loop_int("L1", first, second, 1, [overflow |-> FALSE, value |-> 0])
computeHammingDistance_int(first, second, cast) ==
    Loop_int("Hamming", first, second, 1, [overflow |-> FALSE, value |-> 0])
\* return static_cast<int>(std::sqrt(distance)): the root of a negative sum
\* is NaN.
computeL2Distance_int(first, second, cast) ==
    LET acc == Loop_int("L2", first, second, 1, [overflow |-> FALSE, value |-> 0])
    IN  [overflow |-> acc.overflow,
         value |-> IF acc.value < 0 THEN CastUnrepresentable(cast, TRUE)
                   ELSE IF ISqrt(acc.value) > IntMax
                   THEN CastUnrepresentable(cast, FALSE)
                   ELSE ISqrt(acc.value)]

distance_int(fn, first, second, cast) ==
    CASE fn = "L1" -> computeL1Distance_int(first, second, cast)
      [] fn = "L2" -> computeL2Distance_int(first, second, cast)
      [] fn = "Hamming" -> computeHammingDistance_int(first, second, cast)

\* Rectangular tables over the whole int range, as crateTestQuery<int> draws
\* them from [numeric_limits<int>::min(), numeric_limits<int>::max()].
crateTestQuery_int ==
    UNION { [1..R -> [1..C -> IntRange]] : R \in 0..IntMaxRows, C \in 0..IntMaxDim }

IntInit ==
    /\ iS \in crateTestQuery_int
    /\ iMetric \in Metrics
    /\ iTraps \in BOOLEAN
    /\ iCast \in { "x86", "arm" }
    /\ iPc = "call"
    /\ iRet = None
    /\ iOverflowed = FALSE
    /\ IntOthersIdle

\* MathKernel<int>::computeDistance(S, S): every pair has equal lengths, so
\* every cell is computed.  Signed overflow is undefined: the machine
\* operation wraps, or the build traps on it.
CallMathKernel_int ==
    /\ iPc = "call"
    /\ LET cells == [i \in 1..Len(iS) |-> [j \in 1..Len(iS) |->
                        distance_int(iMetric, iS[i], iS[j], iCast)]]
           overflowed == \E i \in 1..Len(iS), j \in 1..Len(iS) : cells[i][j].overflow
       IN  /\ iOverflowed' = overflowed
           /\ iPc' = IF overflowed /\ iTraps THEN "trapped" ELSE "returned"
           /\ iRet' = IF overflowed /\ iTraps THEN None
                      ELSE Some([i \in 1..Len(iS) |-> [j \in 1..Len(iS) |->
                                   cells[i][j].value]])
    /\ UNCHANGED << iS, iMetric, iTraps, iCast, intOthers >>

IntNext == CallMathKernel_int

SpecInt == IntInit /\ [][IntNext]_vars

\* The sum over k of (a[k] - b[k])^2 in unbounded integers.
RECURSIVE ExactSumOfSquares(_, _, _)
ExactSumOfSquares(a, b, k) ==
    IF k = 0 THEN 0
    ELSE ExactSumOfSquares(a, b, k - 1) + (a[k] - b[k]) * (a[k] - b[k])

\* C13: for every metric and every table S of int vectors, values at the
\* extremes of the int range included, computeDistance(S, S, metric) has
\* result[i][i] = 0 for every i and result[r][c] = result[c][r] for every r
\* and c.
C13_ZeroDiagonalSymmetric ==
    HasValue(iRet) =>
        /\ \A i \in 1..Len(iS) : Value(iRet)[i][i] = 0
        /\ \A r \in 1..Len(iS), c \in 1..Len(iS) : Value(iRet)[r][c] = Value(iRet)[c][r]
C13_Witness ==
    /\ HasValue(iRet) /\ iOverflowed
    /\ iMetric = "L1"
    /\ iS = << << IntMin, IntMax >>, << IntMax, 0 >> >>
    /\ Value(iRet)[1][2] = Value(iRet)[2][1]
    /\ Value(iRet)[1][2] # 0

\* C17: computeL2Distance forms and accumulates the squared differences in a
\* precision wider than the input type: for int inputs no difference, square
\* or running sum wraps around the int range, and the result is the square
\* root of the exact sum of squares cast back to int.
C17_L2WiderPrecision ==
    (iPc = "returned" /\ iMetric = "L2") =>
        /\ ~iOverflowed
        /\ \A i \in 1..Len(iS), j \in 1..Len(iS) :
             LET exact == ExactSumOfSquares(iS[i], iS[j], Len(iS[i]))
             IN  ISqrt(exact) <= IntMax => Value(iRet)[i][j] = ISqrt(exact)
\* The accumulation itself is exact: what wraps is the difference or the
\* square, both formed in int before the conversion.
L2SumOfWrappedSquares ==
    (iPc = "returned" /\ iMetric = "L2" /\ ~iOverflowed) =>
        \A i \in 1..Len(iS), j \in 1..Len(iS) :
            LET exact == ExactSumOfSquares(iS[i], iS[j], Len(iS[i]))
            IN  ISqrt(exact) <= IntMax => Value(iRet)[i][j] = ISqrt(exact)

(***************************************************************************)
(* SpecApp: one run of the command-line application, main() calling        *)
(* MainApplication::run().  The command line passes -query and -dataSet    *)
(* (or is the single argument -help); the file system holds two CSV files  *)
(* of numeric rows, each of which may be missing, and one existing file    *)
(* "old.csv".                                                              *)
(***************************************************************************)
AppPaths == { "a.csv", "b.csv" }
AppTables == { << >>, << << 1 >> >>, << << 1, 2 >>, << 2, 4 >> >> }
\* What the file system holds at a path: no file, or a file with a table.
FileContents == { None } \cup { Some(t) : t \in AppTables }
MetricNames == Metrics \cup { "Cosine" }

AppArgs ==
    { [help |-> TRUE, query |-> "", dataSet |-> "", out |-> "",
       parallel |-> FALSE, metric |-> "L1", dbg |-> FALSE] }
    \cup [help : { FALSE }, query : AppPaths, dataSet : AppPaths,
          out : { "", "new.csv", "old.csv" }, parallel : BOOLEAN,
          metric : MetricNames, dbg : BOOLEAN]

Info(text) == [type |-> "Info", text |-> text]
Warning(text) == [type |-> "Warning", text |-> text]
Error(text) == [type |-> "Error", text |-> text]

AppInit ==
    /\ appArgs \in AppArgs
    /\ fsFiles \in [AppPaths -> FileContents]
    /\ envFault \in { "none", "std::exception", "unknown" }
    /\ m_dbg = FALSE /\ m_executeParallel = FALSE /\ m_strMetric = ""
    /\ m_queryCSVFile = "" /\ m_dataSetCSVFile = "" /\ m_outFile = ""
    /\ appPc = "parseAndInitParameters"
    /\ thrown = None
    /\ msgLog = << >>
    /\ querySet = << >> /\ loadedDataSet = << >>
    /\ distancesMatrix = None
    /\ displayed = None
    /\ outFileContent = None
    /\ exitStatus = None
    /\ AppOthersIdle

\* An exception leaves the try block of run(): the handlers come next.
Raise(kind, what) ==
    /\ thrown' = Some([kind |-> kind, what |-> what])
    /\ appPc' = "raised"

\* parseAndInitParameters; on -help parse() returns false and run() returns 0.
ParseAndInitParameters ==
    /\ appPc = "parseAndInitParameters"
    /\ IF appArgs.help
       THEN /\ appPc' = "exited"
            /\ exitStatus' = Some(0)
            /\ UNCHANGED << m_dbg, m_executeParallel, m_strMetric,
                            m_queryCSVFile, m_dataSetCSVFile, m_outFile >>
       ELSE /\ appPc' = "checkArguments"
            /\ m_executeParallel' = appArgs.parallel
            /\ m_strMetric' = appArgs.metric
            /\ m_dbg' = appArgs.dbg
            /\ m_queryCSVFile' = appArgs.query
            /\ m_dataSetCSVFile' = appArgs.dataSet
            /\ m_outFile' = appArgs.out
            /\ UNCHANGED exitStatus
    /\ UNCHANGED << appArgs, fsFiles, envFault, thrown, msgLog, querySet,
                    loadedDataSet, distancesMatrix, displayed, outFileContent,
                    appOthers >>

checkArguments_Failure ==
    IF fsFiles[m_queryCSVFile] = None THEN "The query file not exists."
    ELSE IF fsFiles[m_dataSetCSVFile] = None THEN "The data set file not exists."
    ELSE IF m_outFile = "old.csv" THEN "The output file already exists."
    ELSE ""

CheckArguments ==
    /\ appPc = "checkArguments"
    /\ LET analyze == Append(msgLog, Info("Analyze parameters."))
       IN  IF checkArguments_Failure # ""
           THEN /\ msgLog' = analyze
                /\ Raise("CAssertException", checkArguments_Failure)
           ELSE /\ msgLog' = IF m_queryCSVFile = m_dataSetCSVFile
                             THEN Append(analyze,
                                     Warning("The query and data set paths is equal."))
                             ELSE analyze
                /\ appPc' = "showSummary"
                /\ UNCHANGED thrown
    /\ UNCHANGED << appArgs, fsFiles, envFault, m_dbg, m_executeParallel,
                    m_strMetric, m_queryCSVFile, m_dataSetCSVFile, m_outFile,
                    querySet, loadedDataSet, distancesMatrix, displayed,
                    outFileContent, exitStatus, appOthers >>

ShowSummary ==
    /\ appPc = "showSummary"
    /\ LET head == Append(msgLog, Info("The execution summary:"))
           dbg == IF m_dbg THEN Append(head, Warning("Running in debug mode."))
                  ELSE head
       IN  msgLog' = Append(dbg, Info("summary"))
    /\ appPc' = "loadCSVFiles"
    /\ UNCHANGED << appArgs, fsFiles, envFault, m_dbg, m_executeParallel,
                    m_strMetric, m_queryCSVFile, m_dataSetCSVFile, m_outFile,
                    thrown, querySet, loadedDataSet, distancesMatrix, displayed,
                    outFileContent, exitStatus, appOthers >>

\* loadCSVFiles: both files exist and hold numeric rows, so the parser and
\* the cell conversions raise nothing; the environment may fail the call
\* with an exception of the standard library (std::bad_alloc,
\* std::system_error of std::async) or one of another type.
LoadCSVFiles ==
    /\ appPc = "loadCSVFiles"
    /\ msgLog' = Append(msgLog, Info("CSV files loading."))
    /\ IF envFault # "none"
       THEN /\ Raise(envFault, "environment")
            /\ UNCHANGED << querySet, loadedDataSet >>
       ELSE /\ querySet' = Value(fsFiles[m_queryCSVFile])
            /\ loadedDataSet' = Value(fsFiles[m_dataSetCSVFile])
            /\ appPc' = "computeDistances"
            /\ UNCHANGED thrown
    /\ UNCHANGED << appArgs, fsFiles, envFault, m_dbg, m_executeParallel,
                    m_strMetric, m_queryCSVFile, m_dataSetCSVFile, m_outFile,
                    distancesMatrix, displayed, outFileContent, exitStatus,
                    appOthers >>

\* metricToEnum: the name is looked up in the map of the three metrics.
metricToEnum_Known(name) == name \in Metrics

\* computeDistances: the kernel is MTMathKernel under -parallel and
\* MathKernel otherwise; both raise on the same inputs and return the same
\* matrix (SpecKernel), so the call is computed with the sequential one.
ComputeDistances ==
    /\ appPc = "computeDistances"
    /\ msgLog' = Append(msgLog, Info("Compute distances."))
    /\ IF ~ metricToEnum_Known(m_strMetric)
       THEN /\ Raise("CAssertException", "InvalidMetric")
            /\ UNCHANGED distancesMatrix
       ELSE LET r == MathKernel_computeDistance(querySet, loadedDataSet, m_strMetric)
            IN  IF r.error
                THEN /\ Raise("CAssertException", "DimensionMismatch")
                     /\ UNCHANGED distancesMatrix
                ELSE /\ distancesMatrix' = Some(r.matrix)
                     /\ appPc' = IF m_outFile = "" THEN "displayResult"
                                 ELSE "writeCSV"
                     /\ UNCHANGED thrown
    /\ UNCHANGED << appArgs, fsFiles, envFault, m_dbg, m_executeParallel,
                    m_strMetric, m_queryCSVFile, m_dataSetCSVFile, m_outFile,
                    querySet, loadedDataSet, displayed, outFileContent,
                    exitStatus, appOthers >>

DisplayResult ==
    /\ appPc = "displayResult"
    /\ displayed' = distancesMatrix
    /\ msgLog' = Append(msgLog, Info("The distance matrix:"))
    /\ appPc' = "completed"
    /\ UNCHANGED << appArgs, fsFiles, envFault, m_dbg, m_executeParallel,
                    m_strMetric, m_queryCSVFile, m_dataSetCSVFile, m_outFile,
                    thrown, querySet, loadedDataSet, distancesMatrix,
                    outFileContent, exitStatus, appOthers >>

WriteCSV ==
    /\ appPc = "writeCSV"
    /\ msgLog' = msgLog \o << Info("Write distance matrix in out file."),
                              Info("The output file: ") >>
    /\ outFileContent' = distancesMatrix
    /\ appPc' = "completed"
    /\ UNCHANGED << appArgs, fsFiles, envFault, m_dbg, m_executeParallel,
                    m_strMetric, m_queryCSVFile, m_dataSetCSVFile, m_outFile,
                    thrown, querySet, loadedDataSet, distancesMatrix, displayed,
                    exitStatus, appOthers >>

\* The status run() returns after its handler of dbgh::CAssertException.
run_StatusAfterCatch == 0

\* The end of the try block: the last message, then "return 0".
Completed ==
    /\ appPc = "completed"
    /\ msgLog' = Append(msgLog,
                        Info("The distance computing completed successfully."))
    /\ exitStatus' = Some(0)
    /\ appPc' = "exited"
    /\ UNCHANGED << appArgs, fsFiles, envFault, m_dbg, m_executeParallel,
                    m_strMetric, m_queryCSVFile, m_dataSetCSVFile, m_outFile,
                    thrown, querySet, loadedDataSet, distancesMatrix, displayed,
                    outFileContent, appOthers >>

\* catch (const dbgh::CAssertException&) of run(): uncoverException writes
\* the details under -dbg, the message is written, and run() returns.
CatchInRun ==
    /\ appPc = "raised"
    /\ Value(thrown).kind = "CAssertException"
    /\ LET uncovered == IF m_dbg THEN Append(msgLog, Error("uncovered"))
                        ELSE msgLog
       IN  msgLog' = Append(uncovered, Error(Value(thrown).what))
    /\ exitStatus' = Some(run_StatusAfterCatch)
    /\ appPc' = "exited"
    /\ UNCHANGED << appArgs, fsFiles, envFault, m_dbg, m_executeParallel,
                    m_strMetric, m_queryCSVFile, m_dataSetCSVFile, m_outFile,
                    thrown, querySet, loadedDataSet, distancesMatrix, displayed,
                    outFileContent, appOthers >>

\* The handlers of main(): std::exception gives -2, anything else -3.
CatchInMain ==
    /\ appPc = "raised"
    /\ Value(thrown).kind # "CAssertException"
    /\ IF Value(thrown).kind = "std::exception"
       THEN /\ msgLog' = Append(msgLog, Error(Value(thrown).what))
            /\ exitStatus' = Some(0 - 2)
       ELSE /\ msgLog' = Append(msgLog, Error("Unknown error."))
            /\ exitStatus' = Some(0 - 3)
    /\ appPc' = "exited"
    /\ UNCHANGED << appArgs, fsFiles, envFault, m_dbg, m_executeParallel,
                    m_strMetric, m_queryCSVFile, m_dataSetCSVFile, m_outFile,
                    thrown, querySet, loadedDataSet, distancesMatrix, displayed,
                    outFileContent, appOthers >>

AppNext ==
    \/ ParseAndInitParameters
    \/ CheckArguments
    \/ ShowSummary
    \/ LoadCSVFiles
    \/ ComputeDistances
    \/ DisplayResult
    \/ WriteCSV
    \/ Completed
    \/ CatchInRun
    \/ CatchInMain

SpecApp == AppInit /\ [][AppNext]_vars

(***************************************************************************)
(* Properties of a run of the application (SpecApp).                       *)
(***************************************************************************)
Taxonomy == { "DimensionMismatch", "InvalidMetric" }
FailedWith(whats) ==
    /\ appPc = "exited"
    /\ HasValue(thrown)
    /\ Value(thrown).what \in whats
ErrorMessageWritten ==
    \E k \in 1..Len(msgLog) :
        msgLog[k] = Error(Value(thrown).what)

\* C18: a run that fails with an error of the taxonomy ends with a non-zero
\* exit status and an error message, and no distance matrix is displayed or
\* written to the output file.
C18_FailedRunExitsNonZero ==
    FailedWith(Taxonomy) =>
        /\ Value(exitStatus) # 0
        /\ ErrorMessageWritten
        /\ displayed = None
        /\ outFileContent = None

\* The part of it that does hold: the message is written and no matrix
\* leaves the process, whatever was raised.
FailedRunDiscardsResult ==
    (appPc = "exited" /\ HasValue(thrown)) =>
        /\ ErrorMessageWritten \/ Value(thrown).kind = "unknown"
        /\ displayed = None
        /\ outFileContent = None

\* A dimension mismatch raised while computing distances ends with status 0.
DimensionMismatchExitsZero ==
    FailedWith({ "DimensionMismatch" }) => Value(exitStatus) = 0

(***************************************************************************)
(* SpecCSV: one call of csv::util::loadFlatCSV on a parser that has loaded *)
(* a CSV file of numeric rows, under one of the three execution policies.  *)
(* A line is the sequence of its characters.                               *)
(***************************************************************************)
DigitChars == << "0", "1", "2", "3", "4", "5", "6", "7", "8", "9" >>
Delimiters == { "\t", " ", "," }

\* std::to_string of a non-negative integer.
RECURSIVE to_string(_)
to_string(v) ==
    IF v < 10 THEN << DigitChars[v + 1] >>
    ELSE to_string(v \div 10) \o << DigitChars[(v % 10) + 1] >>

\* The line createCSVFile writes for a row: every cell followed by the
\* delimiter; without `trailing` the delimiter only separates the cells.
RECURSIVE FormatRow(_, _, _)
FormatRow(values, delimiter, trailing) ==
    IF values = << >> THEN << >>
    ELSE to_string(Head(values))
         \o (IF trailing \/ Len(values) > 1 THEN << delimiter >> ELSE << >>)
         \o FormatRow(Tail(values), delimiter, trailing)

\* The cells of line i of the files of the model: two cells, no cell, or one.
CellValues(i) ==
    IF i % 3 = 1 THEN << i, 2 * i >>
    ELSE IF i % 3 = 2 THEN << >>
    ELSE << i >>
FileRows(n) == [i \in 1..n |-> CellValues(i)]
FileLines(n, delimiter, trailing) ==
    [i \in 1..n |-> FormatRow(CellValues(i), delimiter, trailing)]

\* std::string::find_first_of("\t ,", pos): the first position from pos on
\* that holds a delimiter, or 0 for npos.  Positions count from 1.
RECURSIVE find_first_of(_, _)
find_first_of(rowString, pos) ==
    IF pos > Len(rowString) THEN 0
    ELSE IF rowString[pos] \in Delimiters THEN pos
    ELSE find_first_of(rowString, pos + 1)

\* The iteration over a Row from begin() to end(): operator* gives the cell
\* from the position up to the next delimiter, operator++ moves behind the
\* delimiter, or to the end when there is none.
RECURSIVE Row_cells(_, _)
Row_cells(rowString, lastPosition) ==
    IF lastPosition > Len(rowString) THEN << >>
    ELSE LET endOfCell == find_first_of(rowString, lastPosition)
         IN  IF endOfCell = 0
             THEN << SubSeq(rowString, lastPosition, Len(rowString)) >>
             ELSE << SubSeq(rowString, lastPosition, endOfCell - 1) >>
                  \o Row_cells(rowString, endOfCell + 1)

\* std::from_chars on a cell of decimal digits.
DigitValue(c) == (CHOOSE d \in 1..10 : DigitChars[d] = c) - 1
RECURSIVE from_chars(_, _)
from_chars(strCell, value) ==
    IF strCell = << >> THEN value
    ELSE from_chars(Tail(strCell), value * 10 + DigitValue(Head(strCell)))
Cell_get(strCell) == from_chars(strCell, 0)

\* What the loop over the cells of a row appends to a row of the table.
ReadCells(rowString) ==
    LET cells == Row_cells(rowString, 1)
    IN  [k \in 1..Len(cells) |-> Cell_get(cells[k])]

\* readCSV: std::transform over the rows with a back_inserter.
readCSV(arrData) == [i \in 1..Len(arrData) |-> ReadCells(arrData[i])]

\* The row of the table that the handler of row i of the parser writes:
\* index = &row - &*std::begin(parser).
readCSV_MT_index(i) == i

CsvInit ==
    /\ \E n \in 0..CsvMaxRows, delimiter \in Delimiters, trailing \in BOOLEAN :
         m_arrData = FileLines(n, delimiter, trailing)
    /\ csvExec \in { "Seq", "Par", "Par2" }
    /\ csvExec = "Par" => Len(m_arrData) <= CsvMaxParRows
    /\ hardware_threads \in 0..CsvMaxHardwareThreads
    /\ csvPc = "call"
    /\ csvTable = << >>
    /\ csvUnhandled = { }
    /\ csvThreads = << >>
    /\ csvRet = None
    /\ CsvOthersIdle

\* loadFlatCSV with Execution::Seq: the whole of readCSV.
CallReadCSV ==
    /\ csvPc = "call"
    /\ csvExec = "Seq"
    /\ csvTable' = readCSV(m_arrData)
    /\ csvRet' = Some(readCSV(m_arrData))
    /\ csvPc' = "returned"
    /\ UNCHANGED << m_arrData, csvExec, hardware_threads, csvUnhandled, csvThreads,
                    csvOthers >>

\* loadFlatCSV with Execution::Par: readCSV_MT up to std::for_each.
StartReadCSV_MT ==
    /\ csvPc = "call"
    /\ csvExec = "Par"
    /\ csvTable' = [i \in 1..Len(m_arrData) |-> << >>]
    /\ csvUnhandled' = 1..Len(m_arrData)
    /\ csvPc' = "for_each"
    /\ UNCHANGED << m_arrData, csvExec, hardware_threads, csvThreads, csvRet,
                    csvOthers >>

\* The handler of std::for_each(par) on row i, run by some thread.
ReadRow_MT(i) ==
    /\ csvPc = "for_each"
    /\ i \in csvUnhandled
    /\ LET index == readCSV_MT_index(i)
       IN  csvTable' = [csvTable EXCEPT ![index] = @ \o ReadCells(m_arrData[i])]
    /\ csvUnhandled' = csvUnhandled \ { i }
    /\ UNCHANGED << m_arrData, csvExec, hardware_threads, csvPc, csvThreads, csvRet,
                    csvOthers >>

ReturnReadCSV_MT ==
    /\ csvPc = "for_each"
    /\ csvUnhandled = { }
    /\ csvRet' = Some(csvTable)
    /\ csvPc' = "returned"
    /\ UNCHANGED << m_arrData, csvExec, hardware_threads, csvTable, csvUnhandled,
                    csvThreads, csvOthers >>

\* readCSV_MT2: the number of threads, the calling thread included.
readCSV_MT2_num_threads(length) ==
    LET max_threads == (length + min_per_thread - 1) \div min_per_thread
    IN  Min(IF hardware_threads # 0 THEN hardware_threads ELSE defaultThreads,
            max_threads)

\* The blocks of rows: num_threads - 1 blocks of block_size rows for the
\* threads started, then the rows left for the calling thread.  rowIndex is
\* the row a thread reads next, last the row behind its block (from 0).
readCSV_MT2_blocks(length, num_threads, block_size) ==
    [t \in 1..num_threads |->
        [rowIndex |-> (t - 1) * block_size,
         last |-> IF t < num_threads THEN t * block_size ELSE length]]

\* loadFlatCSV with Execution::Par2: readCSV_MT2 up to the start of the
\* threads.  With no row num_threads is 0 and length / num_threads divides
\* by zero: the build traps, or the quotient is 0 and the vector of
\* num_threads - 1 = SIZE_MAX threads raises std::length_error.
StartReadCSV_MT2 ==
    /\ csvPc = "call"
    /\ csvExec = "Par2"
    /\ LET length == Len(m_arrData)
           num_threads == readCSV_MT2_num_threads(length)
       IN  \E d \in DivOutcomes(length, num_threads) :
             IF d.trap
             THEN /\ csvPc' = "SIGFPE"
                  /\ UNCHANGED << csvTable, csvThreads >>
             ELSE /\ csvTable' = [i \in 1..length |-> << >>]
                  /\ IF num_threads = 0
                     THEN /\ csvPc' = "length_error"
                          /\ UNCHANGED csvThreads
                     ELSE /\ csvThreads' = readCSV_MT2_blocks(length, num_threads, d.q)
                          /\ csvPc' = "threads"
    /\ UNCHANGED << m_arrData, csvExec, hardware_threads, csvUnhandled, csvRet,
                    csvOthers >>

\* One turn of the loop of readCSVRows in thread t: the cells of the row at
\* rowIndex are appended to table[rowIndex], then ++rowIndex.
ReadCSVRows(t) ==
    /\ csvPc = "threads"
    /\ t \in 1..Len(csvThreads)
    /\ csvThreads[t].rowIndex < csvThreads[t].last
    /\ LET rowIndex == csvThreads[t].rowIndex + 1
       IN  csvTable' = [csvTable EXCEPT ![rowIndex] = @ \o ReadCells(m_arrData[rowIndex])]
    /\ csvThreads' = [csvThreads EXCEPT ![t].rowIndex = @ + 1]
    /\ UNCHANGED << m_arrData, csvExec, hardware_threads, csvPc, csvUnhandled, csvRet,
                    csvOthers >>

\* The calling thread has read its rows and joined every thread.
JoinReadCSV_MT2 ==
    /\ csvPc = "threads"
    /\ \A t \in 1..Len(csvThreads) : csvThreads[t].rowIndex = csvThreads[t].last
    /\ csvRet' = Some(csvTable)
    /\ csvPc' = "returned"
    /\ UNCHANGED << m_arrData, csvExec, hardware_threads, csvTable, csvUnhandled,
                    csvThreads, csvOthers >>

CsvNext ==
    \/ CallReadCSV
    \/ StartReadCSV_MT
    \/ \E i \in 1..CsvMaxParRows + 1 : ReadRow_MT(i)
    \/ ReturnReadCSV_MT
    \/ StartReadCSV_MT2
    \/ \E t \in 1..CsvMaxHardwareThreads + 1 : ReadCSVRows(t)
    \/ JoinReadCSV_MT2

SpecCSV == CsvInit /\ [][CsvNext]_vars

(***************************************************************************)
(* Properties of loadFlatCSV (SpecCSV).                                    *)
(***************************************************************************)
\* The call has ended: with a table, or without one.
CsvEnded == csvPc \in { "returned", "SIGFPE", "length_error" }

\* C19: for every CSV file of numeric rows, of any number of rows,
\* loadFlatCSV returns under Seq, Par and Par2 the same table, whose row i
\* holds the cells of line i of the file in their order, whatever the number
\* of threads and their interleaving.
C19_SameTableUnderEveryPolicy ==
    CsvEnded =>
        /\ HasValue(csvRet)
        /\ Value(csvRet) = FileRows(Len(m_arrData))
        /\ Value(csvRet) = readCSV(m_arrData)

\* It holds for every file of at least one row.
SameTableForNonEmptyFile ==
    (CsvEnded /\ Len(m_arrData) > 0) =>
        /\ HasValue(csvRet)
        /\ Value(csvRet) = FileRows(Len(m_arrData))
        /\ Value(csvRet) = readCSV(m_arrData)

\* Under Par2 a file of no row gives no table.
Par2ReturnsNothingForEmptyFile ==
    (CsvEnded /\ csvExec = "Par2" /\ Len(m_arrData) = 0) => csvRet = None


(***************************************************************************)
(* SpecCLI: io::cli::Parser.  Five options are registered with addOption,  *)
(* then parse() runs on a command line.  argv holds the executable name    *)
(* first; argv[argc] is the null pointer that ends the array of main().    *)
(***************************************************************************)
OptionNames == { "-bool", "-call", "-callArg", "-int", "-str" }
\* The order in which std::map iterates over the option names.
OptionOrder == << "-bool", "-call", "-callArg", "-int", "-str" >>
CliTokens == OptionNames \cup { "-help", "-x", "12", "7x", "v" }
TakesArgument(kind) == kind \in { "string", "int", "callBackWithArgument" }

\* std::istringstream >> int: the integer read from the longest prefix of
\* the argument that is a decimal number, or a failure when there is none.
stringToValue_int(in) ==
    IF in = "12" THEN Some(12)
    ELSE IF in = "7x" THEN Some(7)
    ELSE None

\* addOption: the definition is emplaced under the name, without a default
\* value when the default passed is io::cli::required; ASSERT_ERROR raises
\* when the name is registered already.  The value references and defaults
\* passed are of the same type.
addOption(map, optionName, kind, defaultValue) ==
    IF optionName \in DOMAIN map
    THEN [error |-> TRUE, map |-> map]
    ELSE [error |-> FALSE,
          map |-> [n \in DOMAIN map \cup { optionName } |->
                     IF n = optionName
                     THEN [kind |-> kind, defaultValue |-> defaultValue,
                           initialized |-> FALSE]
                     ELSE map[n]]]

\* The registrations of the test, the int option, the callback and the
\* callback with argument each either required (None) or with a default.
Registered(intDefault, callDefault, callArgDefault) ==
    LET m0 == [n \in { } |-> 0]
        m1 == addOption(m0, "-str", "string", Some("default")).map
        m2 == addOption(m1, "-bool", "bool", Some(FALSE)).map
        m3 == addOption(m2, "-int", "int", intDefault).map
        m4 == addOption(m3, "-callArg", "callBackWithArgument", callArgDefault).map
    IN  addOption(m4, "-call", "callBack", callDefault).map

CommandLines ==
    UNION { [1..n -> CliTokens] : n \in 0..CliMaxArgs }

CliInit ==
    /\ \E line \in CommandLines : argv = << "executable" >> \o line
    /\ \E intDefault \in { None, Some(12) }, callDefault \in { None, Some(FALSE) },
          callArgDefault \in { None, Some("default") } :
         m_mapOptionNameToValueDefinition =
             Registered(intDefault, callDefault, callArgDefault)
    /\ outValue = [n \in { "-bool", "-int", "-str" } |-> None]
    /\ calls = [n \in { "-call", "-callArg" } |-> << >>]
    /\ helpPrinted = FALSE
    /\ cliI = 0
    /\ cliPending = << >>
    /\ cliPc = "call"
    /\ CliOthersIdle

argc == Len(argv)
\* argv[i] for i counted from 0.
Arg(i) == argv[i + 1]

\* parse: the command line of the single argument -help prints the help
\* message and returns false; otherwise the loop over the arguments starts.
ParseBegin ==
    /\ cliPc = "call"
    /\ IF argc = 2 /\ Arg(1) = "-help"
       THEN /\ helpPrinted' = TRUE
            /\ cliPc' = "returned false"
            /\ UNCHANGED cliI
       ELSE /\ cliI' = 1
            /\ cliPc' = "arguments"
            /\ UNCHANGED helpPrinted
    /\ UNCHANGED << argv, m_mapOptionNameToValueDefinition, outValue, calls,
                    cliPending, cliOthers >>

\* Reading argv[argc], the null pointer, as a C string is undefined: the
\* construction of the std::string throws std::logic_error, or the read
\* faults.
NullArgumentOutcomes == { "std::logic_error", "SIGSEGV" }

\* The two ASSERT_ERRORs at the head of the loop body: the option is not in
\* the map ("Invalid option"), or it is and was initialized already ("The
\* option is duplicated").  The variant has the first of them only.
parse_Rejects_InvalidOnly(map, name) == name \notin DOMAIN map
parse_Rejects(map, name) ==
    name \notin DOMAIN map \/ map[name].initialized

\* One turn of the loop over the arguments, on the option argv[i].
ParseArgument ==
    /\ cliPc = "arguments"
    /\ cliI < argc
    /\ LET name == Arg(cliI)
           map == m_mapOptionNameToValueDefinition
       IN  IF parse_Rejects(map, name)
           THEN
                /\ cliPc' = "raised"
                /\ UNCHANGED << m_mapOptionNameToValueDefinition, outValue,
                                calls, cliI >>
           ELSE /\ m_mapOptionNameToValueDefinition' =
                       [map EXCEPT ![name].initialized = TRUE]
                /\ IF TakesArgument(map[name].kind) /\ cliI + 1 >= argc
                   THEN /\ cliPc' \in NullArgumentOutcomes
                        /\ cliI' = cliI + 1
                        /\ UNCHANGED << outValue, calls >>
                   ELSE CASE map[name].kind = "bool" ->
                               /\ outValue' = [outValue EXCEPT ![name] = Some(TRUE)]
                               /\ cliI' = cliI + 1
                               /\ UNCHANGED << calls, cliPc >>
                          [] map[name].kind = "string" ->
                               /\ outValue' = [outValue EXCEPT ![name] =
                                                  Some(Arg(cliI + 1))]
                               /\ cliI' = cliI + 2
                               /\ UNCHANGED << calls, cliPc >>
                          [] map[name].kind = "int" ->
                               LET value == stringToValue_int(Arg(cliI + 1))
                               IN  /\ IF HasValue(value)
                                      THEN /\ outValue' = [outValue EXCEPT ![name] = value]
                                           /\ UNCHANGED cliPc
                                      ELSE /\ cliPc' = "raised"
                                           /\ UNCHANGED outValue
                                   /\ cliI' = cliI + 2
                                   /\ UNCHANGED calls
                          [] map[name].kind = "callBack" ->
                               /\ calls' = [calls EXCEPT ![name] = Append(@, "()")]
                               /\ cliI' = cliI + 1
                               /\ UNCHANGED << outValue, cliPc >>
                          [] map[name].kind = "callBackWithArgument" ->
                               /\ calls' = [calls EXCEPT ![name] =
                                              Append(@, Arg(cliI + 1))]
                               /\ cliI' = cliI + 2
                               /\ UNCHANGED << outValue, cliPc >>
    /\ UNCHANGED << argv, helpPrinted, cliPending, cliOthers >>

\* The loop over the arguments has ended: the loop over the map starts.
ParseArgumentsEnd ==
    /\ cliPc = "arguments"
    /\ cliI >= argc
    /\ cliPending' = OptionOrder
    /\ cliPc' = "defaults"
    /\ UNCHANGED << argv, m_mapOptionNameToValueDefinition, outValue, calls,
                    helpPrinted, cliI, cliOthers >>

\* One turn of the loop over the map: an option that was not initialized
\* gets its default value, a callback with argument is called with it, and
\* ASSERT_ERROR raises when it has none.
ParseDefault ==
    /\ cliPc = "defaults"
    /\ cliPending # << >>
    /\ LET name == Head(cliPending)
           def == m_mapOptionNameToValueDefinition[name]
       IN  IF def.initialized
           THEN UNCHANGED << outValue, calls, cliPc >>
           ELSE IF ~ HasValue(def.defaultValue)
           THEN /\ cliPc' = "raised"
                /\ UNCHANGED << outValue, calls >>
           ELSE IF def.kind = "callBack"
           THEN UNCHANGED << outValue, calls, cliPc >>
           ELSE IF def.kind = "callBackWithArgument"
           THEN /\ calls' = [calls EXCEPT ![name] =
                               Append(@, Value(def.defaultValue))]
                /\ UNCHANGED << outValue, cliPc >>
           ELSE /\ outValue' = [outValue EXCEPT ![name] = def.defaultValue]
                /\ UNCHANGED << calls, cliPc >>
    /\ cliPending' = Tail(cliPending)
    /\ UNCHANGED << argv, m_mapOptionNameToValueDefinition, helpPrinted, cliI,
                    cliOthers >>

ParseReturn ==
    /\ cliPc = "defaults"
    /\ cliPending = << >>
    /\ cliPc' = "returned true"
    /\ UNCHANGED << argv, m_mapOptionNameToValueDefinition, outValue, calls,
                    helpPrinted, cliI, cliPending, cliOthers >>

CliNext ==
    \/ ParseBegin
    \/ ParseArgument
    \/ ParseArgumentsEnd
    \/ ParseDefault
    \/ ParseReturn

SpecCLI == CliInit /\ [][CliNext]_vars

(***************************************************************************)
(* Properties of cli::Parser::parse (SpecCLI).                             *)
(***************************************************************************)
KindOf(name) == m_mapOptionNameToValueDefinition[name].kind
DefaultOf(name) == m_mapOptionNameToValueDefinition[name].defaultValue
\* The positions (from 0) of the command line that hold an option: the first
\* argument, and every argument behind an option and behind the argument of
\* an option that takes one.
RECURSIVE OptionPositions(_)
OptionPositions(i) ==
    IF i >= argc THEN { }
    ELSE { i } \cup
         OptionPositions(IF Arg(i) \in OptionNames /\ TakesArgument(KindOf(Arg(i)))
                         THEN i + 2 ELSE i + 1)
Appeared(name) == \E i \in OptionPositions(1) : Arg(i) = name
PositionOf(name) == CHOOSE i \in OptionPositions(1) : Arg(i) = name
\* The argument that follows the option, when there is one.
Supplied(name) ==
    IF PositionOf(name) + 1 < argc THEN Some(Arg(PositionOf(name) + 1)) ELSE None
\* The integer an argument denotes, when the whole of it is a number.
WholeInt(in) == IF in = "12" THEN Some(12) ELSE None
ParseEnded ==
    cliPc \in { "returned true", "returned false", "raised" } \cup NullArgumentOutcomes
RequiredMissing ==
    \E name \in OptionNames : ~ HasValue(DefaultOf(name)) /\ ~ Appeared(name)

\* `whole` asks of an int option that its whole argument is the number held.
HoldsSupplied(name, whole) ==
    CASE KindOf(name) = "bool" -> outValue[name] = Some(TRUE)
      [] KindOf(name) = "string" -> outValue[name] = Supplied(name)
      [] KindOf(name) = "int" ->
            /\ HasValue(Supplied(name))
            /\ HasValue(outValue[name])
            /\ outValue[name] = IF whole THEN WholeInt(Value(Supplied(name)))
                                ELSE stringToValue_int(Value(Supplied(name)))
      [] KindOf(name) = "callBack" -> calls[name] = << "()" >>
      [] KindOf(name) = "callBackWithArgument" -> calls[name] = Supplied(name)
HoldsDefault(name) ==
    CASE KindOf(name) = "callBack" -> calls[name] = << >>
      [] KindOf(name) = "callBackWithArgument" -> calls[name] = DefaultOf(name)
      [] OTHER -> outValue[name] = DefaultOf(name)

\* C20: after parse returns true, every registered option that appeared on
\* the command line holds the value supplied there (a bool option is true, a
\* value option holds the following argument, a callback has been called
\* once) and every registered option that did not appear holds its default
\* value; parse raises an error when a required option did not appear.
C20_ParseAssignsEveryOption ==
    /\ cliPc = "returned true" =>
          \A name \in OptionNames :
              IF Appeared(name) THEN HoldsSupplied(name, TRUE)
              ELSE HoldsDefault(name)
    /\ (ParseEnded /\ RequiredMissing) => cliPc \in { "raised", "std::logic_error" }

\* What does hold: an int option holds the number that starts its argument,
\* every other option holds what the claim says.
ParseTrueAssignsPrefixInt ==
    cliPc = "returned true" =>
        \A name \in OptionNames :
            IF Appeared(name) THEN HoldsSupplied(name, FALSE)
            ELSE HoldsDefault(name)
\* parse does not return true when a required option did not appear, and it
\* raises unless the command line is -help or ends with an option that lacks
\* its argument.
RequiredMissingNeverTrue ==
    (ParseEnded /\ RequiredMissing) =>
        \/ cliPc = "raised"
        \/ cliPc = "returned false" /\ helpPrinted
        \/ cliPc \in NullArgumentOutcomes

\* An argument in the position of an option names none that is registered.
InvalidOptionGiven == \E i \in OptionPositions(1) : Arg(i) \notin OptionNames
\* A registered option stands in the position of an option twice.
DuplicateGiven ==
    \E i, j \in OptionPositions(1) : i < j /\ Arg(i) = Arg(j) /\ Arg(i) \in OptionNames
\* The command line is the request for help.
HelpRequested == argc = 2 /\ Arg(1) = "-help"

\* C21 as stated: parse raises an error when an argument names an option
\* that was not registered, and when an option appears a second time; in
\* both cases it does not return true.
C21_RaisesOnInvalidOrDuplicate ==
    (ParseEnded /\ (InvalidOptionGiven \/ DuplicateGiven)) => cliPc = "raised"

\* C21: parse raises an error when an argument in the position of an option
\* names an option that was not registered, unless the command line is the
\* single argument -help, for which it prints the help message and returns
\* false, and when a registered option appears there a second time; in
\* every one of these cases it does not return true.
C21_RaisesOnInvalidOrDuplicateButHelp ==
    (ParseEnded /\ (InvalidOptionGiven \/ DuplicateGiven)) =>
        /\ cliPc # "returned true"
        /\ IF HelpRequested THEN cliPc = "returned false" /\ helpPrinted
           ELSE cliPc = "raised"
C21_Witness ==
    /\ argv = << "executable", "-str", "v", "-str" >>
    /\ DuplicateGiven /\ ~ InvalidOptionGiven
    /\ cliPc = "raised"
    /\ outValue["-str"] = Some("v")

(***************************************************************************)
(* SpecReg: the tag registry of one MPIWrapper.  The constructor runs      *)
(* registerParamsForSync; afterwards the methods of the class look tags up *)
(* with getVariableTag, and registerVariable is applied to a name again.   *)
(***************************************************************************)
\* The names looked up: the six registered ones and two that are not.
RegNames == { SyncParams[i] : i \in 1..Len(SyncParams) } \cup { "blockSize", "" }

\* getVariableTag on the map: m_mapVarNameToID.at(name) throws for a name
\* that is not a key, the handler raises with ASSERT_ERROR(false, ...); the
\* variant gets to `return {}`.  tag is -1 where nothing is returned.
MPIWrapper_getVariableTag_ReturnsDefault(map, name) ==
    IF name \in DOMAIN map THEN [raised |-> FALSE, tag |-> map[name]]
    ELSE [raised |-> FALSE, tag |-> 0]
MPIWrapper_getVariableTag(map, name) ==
    IF name \in DOMAIN map THEN [raised |-> FALSE, tag |-> map[name]]
    ELSE [raised |-> TRUE, tag |-> -1]

RegInit ==
    /\ registry = << >>
    /\ \E earlier \in 0..RegMaxEarlier : uniqueVarID = earlier * Len(SyncParams)
    /\ regPc = "start"
    /\ regLog = << >>
    /\ RegOthersIdle

\* MPIWrapper::MPIWrapper: registerParamsForSync on the empty map.
ConstructMPIWrapper ==
    /\ regPc = "start"
    /\ LET reg == RegisterAll([map |-> registry, uniqueVarID |-> uniqueVarID,
                               tag |-> 0], SyncParams, 1)
       IN  /\ registry' = reg.map
           /\ uniqueVarID' = reg.uniqueVarID
    /\ regPc' = "constructed"
    /\ UNCHANGED << regLog, regOthers >>

\* registerVariable(varName) on a name of registerParamsForSync.
RegisterVariable(varName) ==
    /\ regPc = "constructed"
    /\ Len(regLog) < RegMaxCalls
    /\ LET reg == registerVariable([map |-> registry, uniqueVarID |-> uniqueVarID,
                                    tag |-> 0], varName)
       IN  /\ registry' = reg.map
           /\ uniqueVarID' = reg.uniqueVarID
           /\ regLog' = Append(regLog, [op |-> "registerVariable", name |-> varName,
                                        raised |-> FALSE, tag |-> reg.tag])
    /\ UNCHANGED << regPc, regOthers >>

\* getVariableTag(name), a const method, as the methods of the protocol call
\* it for the tag of a send or of a receive.
GetVariableTag(name) ==
    /\ regPc = "constructed"
    /\ Len(regLog) < RegMaxCalls
    /\ LET r == MPIWrapper_getVariableTag(registry, name)
       IN  regLog' = Append(regLog, [op |-> "getVariableTag", name |-> name,
                                    raised |-> r.raised, tag |-> r.tag])
    /\ UNCHANGED << registry, uniqueVarID, regPc, regOthers >>

RegNext ==
    \/ ConstructMPIWrapper
    \/ \E i \in 1..Len(SyncParams) : RegisterVariable(SyncParams[i])
    \/ \E name \in RegNames : GetVariableTag(name)

SpecReg == RegInit /\ [][RegNext]_vars

(***************************************************************************)
(* SpecAgain: one MPIWrapper used for more than one distributeTask.  Rank  *)
(* 0 calls distributeTask and receiveQuery in any order; what the workers  *)
(* do with the messages is the subject of Spec, here the messages are      *)
(* counted.                                                                *)
(***************************************************************************)
\* The query of the call-th distributeTask, of R rows of one value: a row
\* shows which call it came from.
AgainQuery(call, R) == [i \in 1..R |-> << 10 * call + i >>]
AgainDataSets == { << >>, << << 1 >> >> }

\* Where the second loop of distributeQuery starts: blockStart after the
\* first loop has run for pid = 1 .. numProcessor - 1.
distributeQuery_BlockStartAfterLoop(r) ==
    IF r.numProcessor >= 1 THEN r.blockSize * (r.numProcessor - 1) ELSE 0

\* m_selfQuery after the second loop of distributeQuery: the rows are pushed
\* back onto what the member holds; the variant assigns them.
distributeQuery_SelfQueryAfter_Assigned(selfQuery, rows) == rows
distributeQuery_SelfQueryAfter(selfQuery, rows) == selfQuery \o rows

\* The ready-mode sends of a call go to workers of which nothing is known
\* here: they are delivered, or the job is aborted.
AgainSendOutcomes(count) ==
    IF count = 0 THEN { "delivered" } ELSE { "delivered", "abort" }

AgainInit ==
    /\ againProc \in 1..AgainMaxProc
    /\ againQueries = << >>
    /\ againSelfQuery = << >>
    /\ againQuerySize = None
    /\ againDataSetSize = None
    /\ againSent = 0
    /\ againRet = None
    /\ againPc = "ready"
    /\ AgainOthersIdle

\* distributeTask(q, ds) on rank 0: distributeQuery, then sendDataSet.
DistributeTaskAgain(q, ds) ==
    /\ againPc = "ready"
    /\ Len(againQueries) < AgainMaxCalls
    /\ againQueries' = Append(againQueries, q)
    /\ againQuerySize' = Some(Len(q))
    /\ \E r \in getBlockSize(Len(q), againProc) :
         IF r.trap
         THEN /\ againPc' = "crashed"
              /\ UNCHANGED << againSelfQuery, againDataSetSize, againSent >>
         ELSE LET blockStart_ == distributeQuery_BlockStartAfterLoop(r)
                  querySends == IF r.numProcessor >= 1
                                THEN 3 * (r.numProcessor - 1) ELSE 0
                  dataSetSends == IF ds = << >> THEN 0 ELSE 2 * (againProc - 1)
              IN  /\ againSelfQuery' =
                       distributeQuery_SelfQueryAfter(againSelfQuery,
                           subspan(q, blockStart_, Len(q) - blockStart_))
                  /\ againDataSetSize' =
                       IF ds = << >> THEN againDataSetSize ELSE Some(Len(ds))
                  /\ againSent' = againSent + querySends + dataSetSends
                  /\ \E o \in AgainSendOutcomes(querySends + dataSetSends) :
                       againPc' = IF o = "abort" THEN "aborted"
                                  ELSE IF ds = << >> THEN "error"
                                  ELSE "ready"
    /\ UNCHANGED << againProc, againRet, againOthers >>

\* receiveQuery on rank 0: return m_selfQuery.
ReceiveQueryAgain ==
    /\ againPc = "ready"
    /\ againRet' = Some([calls |-> Len(againQueries), rows |-> againSelfQuery])
    /\ UNCHANGED << againProc, againQueries, againSelfQuery, againQuerySize,
                    againDataSetSize, againSent, againPc, againOthers >>

AgainNext ==
    \/ \E R \in 0..AgainMaxRows, ds \in AgainDataSets :
         DistributeTaskAgain(AgainQuery(Len(againQueries) + 1, R), ds)
    \/ ReceiveQueryAgain

SpecAgain == AgainInit /\ [][AgainNext]_vars

(***************************************************************************)
(* Properties of repeated distributeTask (SpecAgain).                      *)
(***************************************************************************)
\* The rows of query q that rank 0 keeps: those after the blocks of the
\* workers.
RemainderRows(q) ==
    IF q = << >> THEN << >>
    ELSE LET r == CHOOSE r \in getBlockSize(Len(q), againProc) : TRUE
             start == distributeQuery_BlockStartAfterLoop(r)
         IN  subspan(q, start, Len(q) - start)
RECURSIVE RemainderRowsUpTo(_)
RemainderRowsUpTo(n) ==
    IF n = 0 THEN << >>
    ELSE RemainderRowsUpTo(n - 1) \o RemainderRows(againQueries[n])
\* receiveQuery has returned after the latest of at least one distributeTask.
ReturnedAfterLatest ==
    /\ HasValue(againRet)
    /\ Value(againRet).calls = Len(againQueries)
    /\ Len(againQueries) >= 1

\* C38: after any number of distributeTask calls on one MPIWrapper,
\* receiveQuery at rank 0 returns exactly the remainder rows of the query
\* distributed last; no row of an earlier query is kept.
C38_ReceiveQueryReturnsLatestRemainder ==
    ReturnedAfterLatest =>
        Value(againRet).rows = RemainderRows(againQueries[Len(againQueries)])

\* What holds: receiveQuery returns the remainder rows of every query
\* distributed so far, in the order of the calls; after one call, those of
\* that query.
ReceiveQueryReturnsAllRemainders ==
    HasValue(againRet) =>
        Value(againRet).rows = RemainderRowsUpTo(Value(againRet).calls)
\* The rows of the first query are returned in front of those of the second.
EarlierRowsReturned ==
    /\ ReturnedAfterLatest
    /\ againProc = 1 /\ Len(againQueries) = 2
    /\ againQueries = << AgainQuery(1, 1), AgainQuery(2, 1) >>
    /\ Value(againRet).rows = << << 11 >>, << 21 >> >>

(***************************************************************************)
(* Properties of the tag registry (SpecReg).                               *)
(***************************************************************************)
RegCalled(op) ==
    /\ Len(regLog') = Len(regLog) + 1
    /\ regLog'[Len(regLog')].op = op
RegLast == regLog'[Len(regLog')]
SixDistinctTags ==
    /\ DOMAIN registry = { SyncParams[i] : i \in 1..Len(SyncParams) }
    /\ Cardinality({ registry[n] : n \in DOMAIN registry }) = 6

\* C31: in every state after the construction of the MPIWrapper the
\* registry binds the six channel names to six pairwise distinct tags;
\* registering a name again returns its existing tag, and no operation adds,
\* removes or changes a binding.
C31_RegistryFixedAfterConstruction ==
    /\ [] (regPc = "constructed" => SixDistinctTags)
    /\ [][regPc = "constructed" =>
            /\ registry' = registry
            /\ RegCalled("registerVariable") =>
                  (~ RegLast.raised /\ RegLast.tag = registry[RegLast.name])]_vars
\* On the third MPIWrapper of a process a name was registered again and a
\* tag was looked up.
C31_Witness ==
    /\ regPc = "constructed"
    /\ registry["vectorSize"] = 12 /\ registry["distanceMatrix"] = 17
    /\ Len(regLog) = 2
    /\ regLog[1] = [op |-> "registerVariable", name |-> "queryMatrix",
                    raised |-> FALSE, tag |-> 15]
    /\ regLog[2].op = "getVariableTag"

\* C32: getVariableTag raises an error for every name that was not
\* registered and returns no tag then; for a registered name it returns the
\* registered tag; it leaves the registry unchanged.
C32_GetVariableTag ==
    [][RegCalled("getVariableTag") =>
          /\ registry' = registry
          /\ IF RegLast.name \in DOMAIN registry
             THEN ~ RegLast.raised /\ RegLast.tag = registry[RegLast.name]
             ELSE RegLast.raised /\ RegLast.tag = -1]_vars
\* A name that is not registered and a registered one were looked up.
C32_Witness ==
    /\ regPc = "constructed" /\ Len(regLog) = 2
    /\ regLog[1] = [op |-> "getVariableTag", name |-> "blockSize",
                    raised |-> TRUE, tag |-> -1]
    /\ regLog[2] = [op |-> "getVariableTag", name |-> "dataSetMatrix",
                    raised |-> FALSE, tag |-> 4]
    /\ registry["dataSetMatrix"] = 4

(***************************************************************************)
(* Properties of the protocol (Spec).                                      *)
(***************************************************************************)
Returned == HasValue(finalMatrix)
SameDimension ==
    \A i \in 1..Len(query), j \in 1..Len(dataSet) : Len(query[i]) = Len(dataSet[j])
Sequential == MathKernel_computeDistance(query, dataSet, metric)
DistanceMatrixTag == getVariableTag("distanceMatrix")
QueryMatrixSends ==
    SelectSeq(sentLog[mainPID], LAMBDA e : e.tag = getVariableTag("queryMatrix"))
\* distributeQuery has returned at rank 0 without a division fault.
Distributed ==
    /\ nproc >= 1
    /\ HasValue(plan[mainPID])
    /\ ~Value(plan[mainPID]).trap
    /\ pc[mainPID] \notin { "distributeQuery", "dq_vectorSize", "dq_querySize",
                           "dq_queryMatrix", "dq_selfQuery" }
Cells(flat) == { flat[i] : i \in 1..Len(flat) }
ReceivedFrom(p) ==
    \E i \in 1..Len(recvLog[mainPID]) :
        /\ recvLog[mainPID][i].source = p
        /\ recvLog[mainPID][i].tag = DistanceMatrixTag
HasSent(p) ==
    \E i \in 1..Len(sentLog[p]) :
        /\ sentLog[p][i].target = mainPID
        /\ sentLog[p][i].tag = DistanceMatrixTag

\* C1: for a query of n >= 1 rows, a non-empty dataset of the same vector
\* dimension, any metric and any process count k with 1 <= k <= n, the matrix
\* receiveDistanceMatrix returns at rank 0 is the matrix the sequential kernel
\* computes on the whole query and dataset.
C1_DistributedEqualsSequential ==
    (/\ Returned
     /\ Len(query) >= 1
     /\ dataSet # << >>
     /\ SameDimension
     /\ nproc <= Len(query))
    => (/\ ~Sequential.error
        /\ Value(finalMatrix) = Sequential.matrix)
C1_Witness ==
    /\ Returned
    /\ nproc = 3 /\ Len(query) = 3 /\ Len(dataSet) = 2 /\ Len(query[1]) = 1
    /\ metric = "L2"
    /\ Value(finalMatrix) = Sequential.matrix

\* C2: after distributeQuery worker pid (1 <= pid <= effectiveWorkers-1) was
\* sent exactly the rows [(pid-1)*blockSize, pid*blockSize), rank 0 keeps
\* exactly the rows [(effectiveWorkers-1)*blockSize, totalRows) and sends none
\* of them, and these ranges in worker order followed by the one of rank 0
\* cover [0, totalRows) without gap or overlap.
C2_RowAssignment ==
    Distributed =>
      LET blockSize == Value(plan[mainPID]).blockSize
          effectiveWorkers == Value(plan[mainPID]).numProcessor
          sends == QueryMatrixSends
          keptFrom == IF effectiveWorkers >= 1 THEN (effectiveWorkers - 1) * blockSize ELSE 0
          kept == subspan(query, keptFrom, Len(query) - keptFrom)
      IN  /\ Len(sends) = (IF effectiveWorkers >= 1 THEN effectiveWorkers - 1 ELSE 0)
          /\ \A i \in 1..Len(sends) :
               /\ sends[i].target = i
               /\ sends[i].data =
                    toFlatMatrix(subspan(query, (i - 1) * blockSize, blockSize))
               /\ Cells(sends[i].data) \cap Cells(toFlatMatrix(kept)) = { }
               /\ \A j \in 1..Len(sends) :
                    i # j => Cells(sends[i].data) \cap Cells(sends[j].data) = { }
          /\ keptFrom <= Len(query)
          /\ m_selfQuery[mainPID] = kept
          /\ toFlatMatrix([i \in 1..Len(sends) |-> sends[i].data])
               \o toFlatMatrix(m_selfQuery[mainPID]) = toFlatMatrix(query)
C2_Witness ==
    /\ Distributed
    /\ nproc = 3 /\ Len(query) = 3 /\ Len(query[1]) = 2
    /\ Len(QueryMatrixSends) = 2
    /\ QueryMatrixSends[2].data = << 3, 4 >>
    /\ m_selfQuery[mainPID] = << << 5, 6 >> >>

\* C3: whatever the order in which the workers send their partial matrices,
\* block p of the matrix rank 0 returns is the partial of worker p and the
\* last block is the partial of rank 0.
C3_BlockOrderIndependent ==
    (Returned /\ HasValue(plan[mainPID])) =>
      LET blockSize == Value(plan[mainPID]).blockSize
          final == Value(finalMatrix)
      IN  /\ \A p \in Workers :
               /\ HasValue(localDistance[p])
               /\ SubSeq(final, (p - 1) * blockSize + 1, p * blockSize)
                    = Value(localDistance[p])
          /\ HasValue(localDistance[mainPID])
          /\ SubSeq(final, (nproc - 1) * blockSize + 1, Len(final))
               = Value(localDistance[mainPID])
C3_Witness ==
    /\ Returned
    /\ nproc = 3
    /\ sendOrder = << 2, 1 >>
    /\ Len(query[1]) >= 1

\* C5: for totalRows >= 1 and a process count k >= 1,
\* blockSize*(effectiveWorkers-1) + coordinatorRemainder = totalRows and
\* coordinatorRemainder >= blockSize >= 1, coordinatorRemainder being the
\* number of rows rank 0 keeps.
C5_PartitionInvariant ==
    (Distributed /\ Len(query) >= 1) =>
      LET blockSize == Value(plan[mainPID]).blockSize
          effectiveWorkers == Value(plan[mainPID]).numProcessor
          coordinatorRemainder == Len(m_selfQuery[mainPID])
      IN  /\ blockSize * (effectiveWorkers - 1) + coordinatorRemainder = Len(query)
          /\ coordinatorRemainder >= blockSize
          /\ blockSize >= 1
C5_Witness ==
    /\ Distributed
    /\ nproc = 2 /\ Len(query) = 3
    /\ Value(plan[mainPID]).blockSize = 1
    /\ Len(m_selfQuery[mainPID]) = 2

\* C6: for every dataset with at least one row, the table receiveDataSet
\* returns at a worker equals the dataset rank 0 passed to distributeTask,
\* row for row and element for element.
C6_DataSetReconstructed ==
    \A p \in Workers :
        (HasValue(localDataSet[p]) /\ dataSet # << >>)
        => Value(localDataSet[p]) = dataSet

\* C8: rank 0 returns the final matrix only after it received a partial
\* matrix from every worker 1 .. numOfProcessor-1; while one of them has not
\* sent its partial, rank 0 is not done.
C8_GatherWaitsForAll ==
    (Returned \/ (nproc >= 1 /\ pc[mainPID] = "done")) =>
      \A p \in Workers : ReceivedFrom(p) /\ HasSent(p)
C8_Witness ==
    /\ Returned
    /\ pc[mainPID] = "done"
    /\ nproc = 3
    /\ \A p \in Workers : ReceivedFrom(p) /\ HasSent(p)
    /\ Len(recvLog[mainPID]) = 2

\* C9: a worker sends only its own partial matrix and only to rank 0, rank 0
\* sends no distance matrix to anyone, no message to a worker carries one,
\* and a worker holds only the distance rows of its own query slice.
C9_MatrixOnlyAtCoordinator ==
    /\ \A p \in Workers :
         /\ \A i \in 1..Len(sentLog[p]) :
              /\ sentLog[p][i].target = mainPID
              /\ sentLog[p][i].tag = DistanceMatrixTag
              /\ sentLog[p][i].data = toFlatMatrix(Value(localDistance[p]))
         /\ \A i \in 1..Len(toWorker[p]) : toWorker[p][i].tag # DistanceMatrixTag
         /\ m_selfDistanceMatrix[p] = << >>
         /\ HasValue(localDistance[p]) =>
              /\ Value(localDistance[p]) =
                   MathKernel_computeDistance(Value(localQuery[p]),
                                              Value(localDataSet[p]), metric).matrix
              /\ Len(Value(localDistance[p])) = Len(Value(localQuery[p]))
    /\ nproc >= 1 =>
         \A i \in 1..Len(sentLog[mainPID]) : sentLog[mainPID][i].tag # DistanceMatrixTag
C9_Witness ==
    /\ Returned
    /\ nproc = 2 /\ Len(query) = 3 /\ Len(query[1]) = 1
    /\ Len(sentLog[1]) = 1
    /\ sentLog[1][1].target = mainPID
    /\ Len(Value(finalMatrix)) = 3
    /\ Len(Value(localDistance[1])) = 1

\* The receives of partial matrices rank 0 has completed, in their order.
Partials ==
    SelectSeq(recvLog[mainPID], LAMBDA e : e.tag = DistanceMatrixTag)
\* Rank 0 is in receiveDistanceMatrix behind getBlockSize, or has returned.
Gathering ==
    /\ nproc >= 1
    /\ pc[mainPID] \in { "rdm_receive", "rdm_self", "done" }
    /\ HasValue(plan[mainPID])
\* The rows of the partial matrices of the workers 1 .. n in that order.
RECURSIVE PartialRows(_)
PartialRows(n) ==
    IF n = 0 THEN << >> ELSE PartialRows(n - 1) \o Value(localDistance[n])

\* C22: during gathering rank 0 receives partial matrices from exactly the
\* workers 1 .. effectiveWorkers-1, one receive per worker in ascending worker
\* index, appends the rows of each partial in that order, and appends its
\* own slice last.
C22_GatherFromEffectiveWorkers ==
    Gathering =>
      LET effectiveWorkers == Value(plan[mainPID]).numProcessor
      IN  /\ \A i \in 1..Len(Partials) :
               Partials[i].source = i /\ i <= effectiveWorkers - 1
          /\ pc[mainPID] = "rdm_receive" => pid <= effectiveWorkers - 1
          /\ distanceMatrix =
               PartialRows(Len(Partials))
                 \o (IF Returned THEN Value(localDistance[mainPID]) ELSE << >>)
          /\ Returned => Len(Partials) = effectiveWorkers - 1

\* What holds for a query of at least one row: the partials received so far came from the workers 1, 2, ...
\* in that order, all of them effective workers; their rows were appended in
\* that order; and a matrix is returned only with all of them and the own
\* slice last.
GatherAscending ==
    (Gathering /\ query # << >>) =>
      LET effectiveWorkers == Value(plan[mainPID]).numProcessor
      IN  /\ \A i \in 1..Len(Partials) :
               Partials[i].source = i /\ i <= effectiveWorkers - 1
          /\ distanceMatrix =
               PartialRows(Len(Partials))
                 \o (IF Returned THEN Value(localDistance[mainPID]) ELSE << >>)
          /\ Returned => Len(Partials) = effectiveWorkers - 1
\* The loop of receiveDistanceMatrix runs to numOfProcessor(): rank 0 waits
\* for a partial of a worker that was given no rows.
GatherWaitsForIdleWorker ==
    /\ Gathering /\ pc[mainPID] = "rdm_receive" /\ posted[mainPID]
    /\ pid > Value(plan[mainPID]).numProcessor - 1
    /\ pc[pid] = "rq_vectorSize"

\* The completed receives of a buffer under one of the names given: what the
\* receiver passed as element count, and the buffer that was sent to it.
BufferReceives(names) ==
    { e \in UNION { { recvLog[p][i] : i \in 1..Len(recvLog[p]) } : p \in DOMAIN recvLog } :
        \E name \in names : e.tag = getVariableTag(name) }

\* C23: for every buffer transfer (queryMatrix and dataSetMatrix from rank 0
\* to a worker, distanceMatrix from a worker to rank 0) the element count the
\* receiver passes to its receive equals the length of the buffer sent.
C23_ReceiveCountIsSentLength ==
    \A e \in BufferReceives({ "queryMatrix", "dataSetMatrix", "distanceMatrix" }) :
        e.count = Len(e.data)

\* It holds for the query slices and the partial matrices.
QueryAndDistanceCountsMatch ==
    \A e \in BufferReceives({ "queryMatrix", "distanceMatrix" }) :
        e.count = Len(e.data)
\* A worker has received a dataset buffer whose length is not the count it
\* passed: the rows of the dataset are not as long as those of the query.
DataSetCountMismatch ==
    \E e \in BufferReceives({ "dataSetMatrix" }) :
        /\ e.count # Len(e.data)
        /\ e.count = Len(dataSet) * Len(query[1])
        /\ Len(e.data) = Len(dataSet) * Len(dataSet[1])

\* Rank 0 has sent to the target, before its i-th send, under the name.
SentBefore(i, target, name) ==
    \E j \in 1..(i - 1) :
        /\ sentLog[mainPID][j].target = target
        /\ sentLog[mainPID][j].tag = getVariableTag(name)
\* Process p has completed, before its i-th receive, one under the name.
ReceivedBefore(p, i, name) ==
    \E j \in 1..(i - 1) : recvLog[p][j].tag = getVariableTag(name)
HasReceived(p, name) == ReceivedBefore(p, Len(recvLog[p]) + 1, name)

\* C24: the scalars that size a payload travel before the payload: rank 0
\* sends vectorSize and querySize before queryMatrix and dataSetSize before
\* dataSetMatrix to every worker, and a worker is at the receive of a payload
\* (and completes it) only after it has received the scalars that give the
\* payload's element count.
C24_ScalarsBeforePayload ==
    /\ \A i \in 1..Len(sentLog[mainPID]) :
          LET e == sentLog[mainPID][i]
          IN  /\ e.tag = getVariableTag("queryMatrix") =>
                    /\ SentBefore(i, e.target, "vectorSize")
                    /\ SentBefore(i, e.target, "querySize")
              /\ e.tag = getVariableTag("dataSetMatrix") =>
                    SentBefore(i, e.target, "dataSetSize")
    /\ \A p \in DOMAIN toWorker :
          /\ pc[p] = "rq_queryMatrix" =>
                /\ HasReceived(p, "vectorSize") /\ HasReceived(p, "querySize")
                /\ m_vectorSize[p] = Some(distributeQuery_vectorSize)
                /\ HasValue(plan[p])
          /\ pc[p] = "rds_dataSetMatrix" =>
                /\ HasReceived(p, "vectorSize") /\ HasReceived(p, "dataSetSize")
                /\ m_dataSetSize[p] = Some(Len(dataSet))
          /\ \A i \in 1..Len(recvLog[p]) :
                /\ recvLog[p][i].tag = getVariableTag("queryMatrix") =>
                      /\ ReceivedBefore(p, i, "vectorSize")
                      /\ ReceivedBefore(p, i, "querySize")
                /\ recvLog[p][i].tag = getVariableTag("dataSetMatrix") =>
                      /\ ReceivedBefore(p, i, "vectorSize")
                      /\ ReceivedBefore(p, i, "dataSetSize")

\* Of three processes the last worker has received both payloads, each
\* behind its scalars, after rank 0 has sent everything.
C24_Witness ==
    /\ nproc = 3
    /\ HasReceived(2, "queryMatrix") /\ HasReceived(2, "dataSetMatrix")
    /\ Len(sentLog[mainPID]) = 10
    /\ Len(query) = 3

\* No message of the query was sent to rank 0 or received by it.
NoQueryMessageToMain ==
    LET queryTags == { getVariableTag("vectorSize"), getVariableTag("querySize"),
                       getVariableTag("queryMatrix") }
    IN  /\ \A q \in DOMAIN sentLog : \A i \in 1..Len(sentLog[q]) :
              sentLog[q][i].tag \in queryTags => sentLog[q][i].target # mainPID
        /\ \A i \in 1..Len(recvLog[mainPID]) : recvLog[mainPID][i].tag \notin queryTags

\* C25: the table receiveQuery returns at worker pid, 1 <= pid <=
\* effectiveWorkers-1, has exactly blockSize rows and is, row for row and
\* element for element, the rows [(pid-1)*blockSize, pid*blockSize) of the
\* query given to distributeTask; at rank 0 receiveQuery returns the
\* remainder rows without any message being sent.
C25_ReceiveQueryReturnsSlice ==
    (nproc >= 1 /\ HasValue(plan[mainPID])) =>
      LET blockSize == Value(plan[mainPID]).blockSize
          effectiveWorkers == Value(plan[mainPID]).numProcessor
          keptFrom == IF effectiveWorkers >= 1 THEN (effectiveWorkers - 1) * blockSize ELSE 0
      IN  /\ \A p \in Workers :
               HasValue(localQuery[p]) =>
                 /\ p <= effectiveWorkers - 1
                 /\ Len(Value(localQuery[p])) = blockSize
                 /\ \A i \in 1..blockSize :
                      /\ Len(Value(localQuery[p])[i]) = Len(query[(p - 1) * blockSize + i])
                      /\ Value(localQuery[p])[i] = query[(p - 1) * blockSize + i]
          /\ HasValue(localQuery[mainPID]) =>
                 /\ Value(localQuery[mainPID]) =
                      subspan(query, keptFrom, Len(query) - keptFrom)
                 /\ NoQueryMessageToMain

\* Of three processes both workers and rank 0 hold their slices of a query
\* of three rows of two elements.
C25_Witness ==
    /\ nproc = 3 /\ Len(query) = 3 /\ Len(query[1]) = 2
    /\ localQuery[1] = Some(<< << 1, 2 >> >>)
    /\ localQuery[2] = Some(<< << 3, 4 >> >>)
    /\ localQuery[mainPID] = Some(<< << 5, 6 >> >>)

\* The protocol state a process is in, by the method it is in: 0 Init,
\* 1 DistributingQuery, 2 DistributingDataset, 3 Computing, 4 Gathering,
\* 5 Done; 6 when it has stopped on an error.
Stopped(at) == at \in { "error", "crashed" }
Phase(at) ==
    CASE at = "distributeQuery" -> 0
      [] at \in { "dq_vectorSize", "dq_querySize", "dq_queryMatrix", "dq_selfQuery",
                  "rq_vectorSize", "rq_querySize", "rq_queryMatrix" } -> 1
      [] at \in { "sendDataSet", "sds_dataSetSize", "sds_dataSetMatrix",
                  "rds_dataSetSize", "rds_dataSetMatrix" } -> 2
      [] at \in { "receiveQuery", "computeDistance" } -> 3
      [] at \in { "sendDistanceMatrix", "receiveDistanceMatrix", "rdm_receive",
                  "rdm_self" } -> 4
      [] at = "done" -> 5
      [] Stopped(at) -> 6
\* The sends of rank 0 under the name, in their order.
SendsUnder(name) ==
    SelectSeq(sentLog[mainPID], LAMBDA e : e.tag = getVariableTag(name))
\* Rank 0 has sent a message of the dataset.
DataSetMessageSent ==
    Len(SendsUnder("dataSetSize")) + Len(SendsUnder("dataSetMatrix")) > 0
\* No process moves to an earlier protocol state, and none leaves an error.
PhaseStep ==
    \A p \in DOMAIN pc : Phase(pc'[p]) >= Phase(pc[p])
\* Rank 0 sends no message of the dataset before every query slice, no
\* process computes before it holds its query slice and the dataset, and no
\* partial matrix is sent or gathered before it has been computed.
PhaseOrder ==
    /\ DataSetMessageSent =>
          /\ HasValue(plan[mainPID])
          /\ Len(SendsUnder("queryMatrix")) =
                (IF Value(plan[mainPID]).numProcessor >= 1
                 THEN Value(plan[mainPID]).numProcessor - 1 ELSE 0)
          /\ Phase(pc[mainPID]) >= 2
    /\ \A i \in 1..Len(sentLog[mainPID]) :
          sentLog[mainPID][i].tag = getVariableTag("queryMatrix") =>
              ~ SentBefore(i, sentLog[mainPID][i].target, "dataSetSize")
    /\ \A p \in DOMAIN pc :
          (pc[p] = "computeDistance" \/ HasValue(localDistance[p])) =>
              /\ HasValue(localQuery[p])
              /\ IF isMain(p)
                 THEN /\ dataSet # << >>
                      /\ Len(SendsUnder("dataSetMatrix")) = nproc - 1
                 ELSE HasValue(localDataSet[p])
    /\ \A p \in DOMAIN toMain :
          /\ HasSent(p) => HasValue(localDistance[p])
          /\ ReceivedFrom(p) => HasSent(p)
    /\ Phase(pc[mainPID]) \in { 4, 5 } =>
          HasValue(localDistance[mainPID])

\* C26: every run passes through the protocol states in the order Init,
\* DistributingQuery, DistributingDataset, Computing, Gathering, Done and
\* never goes back: rank 0 sends no dataset message before it has sent every
\* query slice, no process computes before it holds both its query slice and
\* the full dataset, and no partial matrix is sent or gathered before it has
\* been computed.
C26_PhasesInOrder == [] PhaseOrder /\ [][PhaseStep]_vars

\* Three processes have all gone through every protocol state to Done.
C26_Witness ==
    /\ nproc = 3
    /\ \A p \in Ranks : pc[p] = "done"
    /\ Len(SendsUnder("dataSetMatrix")) = 2
    /\ Len(Partials) = 2

\* The run has no fault to report: the query has a row, the dataset has a
\* row, all vectors are of one dimension.
FaultFreeInput ==
    /\ Len(query) >= 1 /\ dataSet # << >> /\ SameDimension
\* Rank 0 has returned from receiveDistanceMatrix and every worker from
\* receiveQuery, receiveDataSet and sendDistanceMatrix.
AllReturned ==
    /\ Returned
    /\ \A p \in Ranks : pc[p] = "done"
    /\ \A p \in Workers : HasValue(localQuery[p]) /\ HasValue(localDataSet[p])

\* C33: for every number of processes p >= 1 and every query of n >= 1
\* rows, n < p included, in a run without fault under fair scheduling every
\* process terminates: rank 0 returns from receiveDistanceMatrix in the end
\* and every worker from receiveQuery, receiveDataSet and
\* sendDistanceMatrix.
C33_EveryProcessTerminates ==
    FaultFreeInput ~> (failure # "none" \/ AllReturned)

\* It holds when there are at least as many query rows as processes.
TerminatesWithEnoughRows ==
    (FaultFreeInput /\ nproc <= Len(query)) ~> (failure # "none" \/ AllReturned)
\* With fewer rows than processes the run ends blocked: rank 0 waits for the
\* partial of a worker that waits for its query, and no step is possible.
BlockedForEver ==
    /\ FaultFreeInput /\ failure = "none"
    /\ nproc > Len(query)
    /\ GatherWaitsForIdleWorker
    /\ \A p \in Workers :
          pc[p] = "done" \/ (pc[p] = "rq_vectorSize" /\ posted[p] /\ toWorker[p] # << >>)

\* Process p starts a send in this step.
Sends(p) == Len(sentLog'[p]) = Len(sentLog[p]) + 1
SendStarted(p) == sentLog'[p][Len(sentLog'[p])]
\* The target of the send p starts is blocked in the matching receive.
MatchingReceivePosted(p) ==
    LET e == SendStarted(p)
    IN  /\ e.target \in DOMAIN posted
        /\ posted[e.target]
        /\ RecvTag(e.target) = e.tag
        /\ RecvSource(e.target) = p

\* C34: every send of the protocol is a ready-mode send and is issued only
\* when the destination has already posted the matching receive (same
\* source, same tag): in no interleaving of rank 0 and the workers a send is
\* started before its matching receive is posted.
C34_SendsOnlyToPostedReceive ==
    [][\A p \in DOMAIN sentLog : Sends(p) => MatchingReceivePosted(p)]_vars

\* A ready-mode send was started with no matching receive posted and the
\* MPI library has ended the job.
ReadySendFailed ==
    /\ failure = "abort"
    /\ nproc = 2 /\ Len(query) = 2
    /\ Len(sentLog[mainPID]) = 1
    /\ ~ posted[1]

\* distributeTask was given an empty dataset and has raised the error of
\* sendDataSet.
EmptyDataSetRaised == dataSet = << >> /\ nproc >= 1 /\ pc[mainPID] = "error"

\* C35: distributeTask with an empty dataset raises an error before any
\* message has been sent to any worker, so that after the error no worker
\* holds a query slice or is left blocked waiting for a dataset message
\* that will never be sent.
C35_EmptyDataSetRaisesBeforeSending ==
    EmptyDataSetRaised =>
        /\ sentLog[mainPID] = << >>
        /\ \A p \in Workers :
              /\ ~ HasValue(localQuery[p])
              /\ pc[p] \notin { "rds_dataSetSize", "rds_dataSetMatrix" }

\* What holds: with an empty dataset rank 0 raises in sendDataSet, sends no
\* message of the dataset and goes no further.
EmptyDataSetNeverSent ==
    (dataSet = << >> /\ nproc >= 1) =>
        /\ ~ DataSetMessageSent
        /\ Phase(pc[mainPID]) <= 2 \/ Stopped(pc[mainPID])
        /\ \A p \in Workers : ~ HasValue(localDataSet[p])
\* After the error a worker holds its query slice and is blocked in the
\* receive of dataSetSize, with no message on its way.
WorkerLeftWaiting ==
    /\ EmptyDataSetRaised /\ failure = "none"
    /\ nproc = 2 /\ Len(query) = 2
    /\ Len(sentLog[mainPID]) = 3
    /\ HasValue(localQuery[1])
    /\ pc[1] = "rds_dataSetSize" /\ posted[1] /\ toWorker[1] = << >>

\* distributeQuery has passed getBlockSize on an empty query without a trap
\* and so has evaluated std::size(query[0]) on a row that does not exist.
ReadsRowOfEmptyQuery ==
    /\ query = << >> /\ HasValue(plan[mainPID])
    /\ ~ Value(plan[mainPID]).trap
    /\ pc[mainPID] = "dq_selfQuery"

\* Rank 0 has followed the protocol order up to the entry of
\* receiveDistanceMatrix, and the result of its own slice has rows.
AtReceiveDistanceMatrix ==
    /\ nproc >= 1
    /\ pc[mainPID] = "receiveDistanceMatrix"
    /\ HasValue(localDistance[mainPID])
    /\ Value(localDistance[mainPID]) # << >>
\* receiveDistanceMatrix has returned at rank 0.
ReceiveDistanceMatrixReturned ==
    nproc >= 1 /\ pc[mainPID] = "done" /\ HasValue(finalMatrix)

\* C37: in a run in the protocol order in which rank 0 handed the non-empty
\* result of its own slice to sendDistanceMatrix, the three preconditions of
\* receiveDistanceMatrix hold at its entry (query size known, dataset size
\* known, own partial matrix non-empty), and receiveDistanceMatrix consumes
\* the partial: its rows end the returned matrix and it is empty on return.
C37_ReceiveDistanceMatrixPreconditions ==
    /\ AtReceiveDistanceMatrix =>
          /\ receiveDistanceMatrix_Asserts
          /\ m_selfDistanceMatrix[mainPID] = Value(localDistance[mainPID])
    /\ ReceiveDistanceMatrixReturned =>
          /\ m_selfDistanceMatrix[mainPID] = << >>
          /\ (Value(localDistance[mainPID]) # << >> =>
                LET own == Value(localDistance[mainPID])
                    all == Value(finalMatrix)
                IN  /\ Len(all) >= Len(own)
                    /\ SubSeq(all, Len(all) - Len(own) + 1, Len(all)) = own)
C37_Witness ==
    /\ ReceiveDistanceMatrixReturned
    /\ nproc = 2 /\ Len(query) = 3
    /\ Len(Value(localDistance[mainPID])) = 2
    /\ Len(Value(finalMatrix)) = 3
    /\ m_selfDistanceMatrix[mainPID] = << >>

(***************************************************************************)
(* Properties of getBlockSize (SpecPlan).                                  *)
(***************************************************************************)
\* The process count getBlockSize starts from: numOfProcessor(), or 2 for 0.
AvailableWorkers == IF gbSize = 0 THEN defaultProcessorCount ELSE gbSize

\* C4: getBlockSize(totalRows) returns effectiveWorkers = min(availableWorkers,
\* totalRows), an availableWorkers of 0 counting as 2, and blockSize =
\* totalRows / effectiveWorkers by integer division (wherever that quotient
\* exists, i.e. totalRows >= 1); effectiveWorkers never exceeds totalRows.
C4_GetBlockSizePlan ==
    HasValue(gbRet) =>
        LET r == Value(gbRet)
            effectiveWorkers == Min(AvailableWorkers, gbLength)
        IN  /\ r.numProcessor = effectiveWorkers
            /\ r.numProcessor <= gbLength
            /\ (gbLength >= 1 =>
                 /\ ~r.trap
                 /\ r.blockSize = gbLength \div effectiveWorkers)

\* C4 witness: numOfProcessor() = 0 is replaced by 2 and 5 rows give blocks of 2.
C4_Witness ==
    /\ gbSize = 0 /\ gbLength = 5
    /\ HasValue(gbRet)
    /\ Value(gbRet).numProcessor = 2 /\ Value(gbRet).blockSize = 2

(***************************************************************************)
(* Properties of toFlatMatrix / splitFlatMatrix (SpecFlat).                *)
(***************************************************************************)
\* C7: splitFlatMatrix(toFlatMatrix(T), C) = T for every table T of R rows and
\* C columns, R >= 0 and C >= 0, and toFlatMatrix yields an empty buffer when
\* R = 0 or C = 0.
C7_FlattenSplitRoundTrip ==
    /\ (fmPc \in {"flat", "split"} /\ (Len(fmTable) = 0 \/ fmCols = 0)) =>
         fmFlat = << >>
    /\ fmPc = "split" =>
         /\ ~Value(fmSplit).trap
         /\ Value(fmSplit).matrix = fmTable

\* The round trip on tables with at least one column (the case the code
\* supports: the protocol splits by the dataset row count, which is >= 1).
FlattenSplitRoundTripPositiveCols ==
    (fmPc = "split" /\ fmCols >= 1) =>
        /\ ~Value(fmSplit).trap
        /\ Value(fmSplit).matrix = fmTable

\* C36: for every totalRows >= 0 and every process count, getBlockSize yields
\* numProcessor >= 1, so the division totalRows / numProcessor is always
\* defined (and distributeQuery reads query[0] only on a non-empty query).
C36_NumProcessorAtLeastOne ==
    HasValue(gbRet) =>
        /\ Value(gbRet).numProcessor >= 1
        /\ ~ Value(gbRet).trap

\* What holds: the division is defined whenever there is at least one row.
DivisionDefinedForRows ==
    (HasValue(gbRet) /\ gbLength >= 1) =>
        /\ Value(gbRet).numProcessor >= 1
        /\ ~ Value(gbRet).trap
\* getBlockSize(0) has divided by zero and trapped.
DivisionByZeroTrapped ==
    /\ gbLength = 0 /\ HasValue(gbRet)
    /\ Value(gbRet).numProcessor = 0 /\ Value(gbRet).trap


\* The last argument of the command line stands in the position of an option
\* and names a registered option that takes a value.
ValueOptionLast ==
    /\ argc - 1 \in OptionPositions(1)
    /\ Arg(argc - 1) \in OptionNames
    /\ TakesArgument(KindOf(Arg(argc - 1)))

\* C39: parse never reads argv at an index >= argc: when an option that
\* takes a value is the last argument of the command line, parse raises an
\* error and consumes no value that is not there.
C39_NoReadBeyondArgc ==
    /\ cliPc \notin NullArgumentOutcomes
    /\ (ParseEnded /\ ValueOptionLast) => cliPc = "raised"

\* What holds: the only read beyond the arguments is that of argv[argc], for
\* a value option that is the last argument; behind any other command line
\* parse reads arguments only.
ReadsBeyondOnlyForValueOptionLast ==
    /\ cliI <= argc
    /\ cliPc \in NullArgumentOutcomes =>
          /\ cliI = argc
          /\ ValueOptionLast
    /\ (ParseEnded /\ ~ ValueOptionLast) => cliPc \notin NullArgumentOutcomes
\* parse has read argv[argc] for -str and the read has faulted.
NullArgumentRead ==
    /\ argv = << "executable", "-str" >>
    /\ cliI = 2
    /\ cliPc = "SIGSEGV"


=============================================================================
